---- MODULE Spec2Model ----
(***************************************************************************)
(* UCSL_C (src/ucsl/ucsl_classifier.py): the consensus loop of run, the    *)
(* EM loop of run_EM, clustering_ensembling and predict, as a state        *)
(* machine.  Weights of S are exact rationals, one row of S being a record *)
(* [n |-> numerators, d |-> common denominator]; d = 0 stands for a row of *)
(* NaN.  A separator, basis or clustering model is identified by the       *)
(* (run, iteration) that produced it; the values the external trainers     *)
(* return are nondeterministic choices.                                    *)
(***************************************************************************)
EXTENDS Integers, Sequences, FiniteSets, TLC

----------------------------------------------------------------------------
(* Bounds of the model *)

\* number of positive samples (label_to_cluster) in the training set
NPos == 2
\* number of negative samples in the training set
NNeg == 1
\* largest n_consensus tried
MaxConsensus == 2
\* number of query points of one predict call
NQuery == 1
\* class probabilities are multiples of 1 / ClassGrid
ClassGrid == 4
\* n_iterations, the cap on the EM iterations of one run
n_iterations == 2

(* Program constants *)

\* n_clusters=2, the default of UCSL_C.__init__
n_clusters == 2
\* stability_threshold=0.9, as the fraction StabNum / StabDen
StabNum == 9
StabDen == 10

----------------------------------------------------------------------------
(* Samples, clusters, rows of S *)

Clusters == 0 .. (n_clusters - 1)
index_positives == 1 .. NPos
index_negatives == (NPos + 1) .. (NPos + NNeg)
Samples == index_positives \cup index_negatives

RECURSIVE GCD(_, _)
GCD(a, b) == IF b = 0 THEN a ELSE GCD(b, a % b)

RECURSIVE SumOver(_, _)
\* sum of f[x] for x in the finite set D
SumOver(f, D) ==
    IF D = {} THEN 0
    ELSE LET x == CHOOSE y \in D : TRUE IN f[x] + SumOver(f, D \ {x})

RECURSIVE GCDOver(_, _)
GCDOver(f, D) ==
    IF D = {} THEN 0
    ELSE LET x == CHOOSE y \in D : TRUE IN GCD(f[x], GCDOver(f, D \ {x}))

\* the row of NaN (0/0, or the mean of an empty slice)
NaNRow == [n |-> [c \in Clusters |-> 0], d |-> 0]
IsNaN(row) == row.d = 0

\* a row in lowest terms, so that equal rows are equal records
NormRow(row) ==
    IF row.d = 0 THEN NaNRow
    ELSE LET g == GCD(row.d, GCDOver(row.n, Clusters))
         IN  [n |-> [c \in Clusters |-> row.n[c] \div g], d |-> row.d \div g]

RowSum(row) == SumOver(row.n, Clusters)
\* the row is a probability distribution: its entries sum to 1
SumsToOne(row) == ~IsNaN(row) /\ RowSum(row) = row.d
IsOneHot(row) ==
    /\ row.d = 1
    /\ \E k \in Clusters : row.n = [c \in Clusters |-> IF c = k THEN 1 ELSE 0]
IsUniform(row) == ~IsNaN(row) /\ \A c \in Clusters : row.n[c] * n_clusters = row.d
IsZeroRow(row) == ~IsNaN(row) /\ \A c \in Clusters : row.n[c] = 0

\* every probability row whose entries are multiples of 1 / grid
GridRows(grid) ==
    { NormRow([n |-> f, d |-> grid]) :
        f \in { g \in [Clusters -> 0 .. grid] : SumOver(g, Clusters) = grid } }
\* what predict_proba of a mixture may return for one sample
ProbaRows == GridRows(n_clusters)
OneHotRows == { r \in ProbaRows : IsOneHot(r) }
\* inverse squared distances 1 / (q + 1e-5), normalised: no entry is 0
PositiveRows == { r \in GridRows(2 * n_clusters) : \A c \in Clusters : r.n[c] > 0 }

----------------------------------------------------------------------------
(* numpy on rows *)

\* np.argmax of a row: the first index of the maximum (index 0 for a row of NaN)
ArgMax(row) ==
    CHOOSE k \in Clusters :
        /\ \A j \in Clusters : row.n[j] <= row.n[k]
        /\ \A j \in Clusters : j < k => row.n[j] < row.n[k]

\* one_hot_encode of one label
one_hot_encode(k) == [n |-> [c \in Clusters |-> IF c = k THEN 1 ELSE 0], d |-> 1]

UniformRow == NormRow([n |-> [c \in Clusters |-> 1], d |-> n_clusters])

\* np.rint of a row of weights in [0, 1]: round half to even, so 0.5 becomes 0
Rint(row) ==
    IF IsNaN(row) THEN NaNRow
    ELSE [n |-> [c \in Clusters |-> IF 2 * row.n[c] > row.d THEN 1 ELSE 0], d |-> 1]

\* S[i, c] = num / den for one row
SetEntry(row, c, num, den) ==
    NormRow([n |-> [j \in Clusters |-> IF j = c THEN num * row.d ELSE row.n[j] * den],
             d |-> row.d * den])

\* np.count_nonzero(S[index_positives, cluster]) == 0 (NaN counts as non-zero)
NoPositiveWeight(S, c) == \A i \in index_positives : ~IsNaN(S[i]) /\ S[i].n[c] = 0

\* np.max(S[index_negatives, cluster]) < 0.5 (False when the maximum is NaN)
NegativeWeightBelowHalf(S, c) ==
    \A i \in index_negatives : ~IsNaN(S[i]) /\ 2 * S[i].n[c] < S[i].d

\* a trainer is handed a weight that is NaN
HasNaN(S) == \E i \in Samples : IsNaN(S[i])

----------------------------------------------------------------------------
(* Weighting policies *)

Weightings == {"hard", "soft", "uniform"}

PositiveHardAtInit(row) == Rint(row)
NegativeHardAtInit(row) == Rint(row)

\* UCSL_C.run, lines 299-304: the policy applied to the initial S
WeightAtInit(S, neg_w, pos_w) ==
    [i \in Samples |->
        IF i \in index_negatives
        THEN IF neg_w = "uniform" THEN UniformRow
             ELSE IF neg_w = "hard" THEN NegativeHardAtInit(S[i])
             ELSE S[i]
        ELSE IF pos_w = "hard" THEN PositiveHardAtInit(S[i])
             ELSE S[i]]

\* the policy of run, which rounds with np.rint, used after initialization too
ApplyWeightingByRounding(S, neg_w, pos_w) == WeightAtInit(S, neg_w, pos_w)

\* UCSL_C.run_EM, lines 518-523, and clustering_ensembling, lines 589-594
ApplyWeighting(S, neg_w, pos_w) ==
    [i \in Samples |->
        IF i \in index_negatives
        THEN IF neg_w = "uniform" THEN UniformRow
             ELSE IF neg_w = "hard" THEN one_hot_encode(ArgMax(S[i]))
             ELSE S[i]
        ELSE IF pos_w = "hard" THEN one_hot_encode(ArgMax(S[i]))
             ELSE S[i]]

----------------------------------------------------------------------------
(* Adjusted Rand Index (sklearn.metrics.adjusted_rand_score), a fraction *)

Frac(a, b) ==
    LET g == GCD(IF a < 0 THEN -a ELSE a, b) IN <<a \div g, b \div g>>
FracGT(x, y) == x[1] * y[2] > y[1] * x[2]

\* ordered pairs of distinct positive samples
PosPairs == { p \in index_positives \X index_positives : p[1] # p[2] }

ARI(labels_true, labels_pred) ==
    LET same_t(p) == labels_true[p[1]] = labels_true[p[2]]
        same_p(p) == labels_pred[p[1]] = labels_pred[p[2]]
        tp == Cardinality({ p \in PosPairs : same_t(p) /\ same_p(p) })
        tn == Cardinality({ p \in PosPairs : ~same_t(p) /\ ~same_p(p) })
        fn == Cardinality({ p \in PosPairs : same_t(p) /\ ~same_p(p) })
        fp == Cardinality({ p \in PosPairs : ~same_t(p) /\ same_p(p) })
    IN  IF fn = 0 /\ fp = 0 THEN <<1, 1>>
        ELSE Frac(2 * (tp * tn - fn * fp),
                  (tp + fn) * (fn + tn) + (tp + fp) * (fp + tn))

\* np.argmax(S[index_positives], 1)
HardAssignment(S) == [i \in index_positives |-> ArgMax(S[i])]

----------------------------------------------------------------------------
(* Artifacts and option values *)

\* a separator, basis or clustering model: the run and iteration that fit it
Artifact(run, iter) == [run |-> run, iter |-> iter]
\* an empty slot: {} in orthonormal_basis, [] in coefficients, a missing key
NoArtifact == [run |-> -1, iter |-> -1]
\* the keys of orthonormal_basis and clustering_method: -1 is the best-so-far
\* slot, n_consensus + 1 the slot of the final refinement
SlotKeys == -1 .. (MaxConsensus + 1)
\* the keys of coefficients and intercepts: the clusters and the snapshot key -1
SeparatorKeys == Clusters \cup {-1}
\* None
None == << >>

RecognisedClusterings ==
    {"k_means", "spherical_gaussian_mixture", "full_gaussian_mixture"}
GaussianMixtures == {"spherical_gaussian_mixture", "full_gaussian_mixture"}
\* "k-means" is the spelling of the class docstring, which no branch tests
ClusteringChoices == RecognisedClusterings \cup {"k-means"}
\* "estimator" stands for an sklearn-like object with fit, coef_ and intercept_
MaximizationChoices == {"linear", "support_vector", "estimator", "ridge"}
WeightingChoices == Weightings \cup {"none"}

VARIABLES
    pc,                         \* where the caller of the object stands
    error,                      \* the exception that ended the last call
    clustering_method_name, maximization,
    negative_weighting, positive_weighting, n_consensus, label_to_cluster,
    coefficients, intercepts, orthonormal_basis, clustering_method,
    clustering_assignments, cluster_labels_, barycenters,
    consensus,                  \* run: the restart; run_EM: the slot it writes
    iteration, S, cluster_index, best_cluster_consistency,
    ran,                        \* the kinds of fitting step executed so far
    calls,                      \* how often run_EM was entered, and how
    em,                         \* bookkeeping of the current run_EM call
    ret,                        \* the last tracked method call: its arguments
                                \* and what it handed back
    noise_tolerance_threshold,
    directions_basis, scores, argsort, directions, basis,
                                \* graam_schmidt: its argument and its locals
    considered,                 \* graam_schmidt: the directions its loop took
    distances_to_hyperplanes, cluster_predictions, y_pred,
                                \* predict_classif_proba: its locals
    hydra,                      \* HYDRA: the attributes of the object and the
                                \* locals of run that UCSL_C has no name for
    training_label_mapping,     \* fit: the attribute, a dict
    items,                      \* fit: the items its for loop has yet to take
    y_train, y_train_copy,      \* fit: the caller's array and the local copy
    passed,                     \* the labels y_train held when fit was called
    trained_on                  \* the labels fit handed to run

config == <<clustering_method_name, maximization, negative_weighting,
            positive_weighting, n_consensus, label_to_cluster>>
fitted == <<coefficients, intercepts, orthonormal_basis, clustering_method,
            clustering_assignments, cluster_labels_, barycenters>>
locals == <<consensus, iteration, S, cluster_index, best_cluster_consistency>>
gram ==
    <<noise_tolerance_threshold, directions_basis, scores, argsort, directions,
      basis, considered>>
proba == <<distances_to_hyperplanes, cluster_predictions, y_pred>>
relabel == <<training_label_mapping, items, y_train, y_train_copy, passed, trained_on>>
vars ==
    <<pc, error, config, fitted, locals, ran, calls, em, ret, gram, proba, hydra,
      relabel>>

\* the bookkeeping at the entry of run_EM
EMEntry(floor) ==
    [m_steps |-> 0, e_steps |-> 0, checkpoints |-> 0, floor |-> floor,
     last_improved |-> NoArtifact, stable |-> FALSE, last_consistency |-> <<0, 1>>]
NoEM == EMEntry(<<1, 1>>)

\* no tracked method was called yet
NoReturn ==
    [op |-> "none", kind |-> "none", y_true |-> None, first |-> None, second |-> None]
\* what a method handed back: kind is "return" for a result, "class" for the
\* exception class NotImplementedError handed back as a value, "raise" for an
\* exception raised
Returned(op, kind, y_true, first, second) ==
    [op |-> op, kind |-> kind, y_true |-> y_true, first |-> first, second |-> second]

NoS == [i \in Samples |-> NaNRow]
NoIndex == [i \in index_positives |-> 0]

\* graam_schmidt is not running; noise_tolerance_threshold=10 is the default
\* of UCSL_C.__init__
NoGram ==
    /\ noise_tolerance_threshold = 10
    /\ directions_basis = << >>
    /\ scores = << >>
    /\ argsort = << >>
    /\ directions = << >>
    /\ basis = << >>
    /\ considered = << >>

\* predict_classif_proba is not running
NoProba ==
    /\ distances_to_hyperplanes = << >>
    /\ cluster_predictions = << >>
    /\ y_pred = << >>

\* no HYDRA object exists
NoHydra == hydra = None

\* fit is not running
NoFit ==
    /\ training_label_mapping = << >>
    /\ items = << >>
    /\ y_train = << >>
    /\ y_train_copy = << >>
    /\ passed = << >>
    /\ trained_on = << >>

----------------------------------------------------------------------------
(* Construction *)

\* BaseEM.__init__: the clustering and maximization options are checked
ValidStrategies(clustering, maximiz) ==
    /\ clustering \in RecognisedClusterings
    /\ maximiz \in {"linear", "support_vector", "estimator"}

\* the two asserts on the weightings left out
WeightingsUnchecked(neg_w, pos_w) == TRUE

\* UCSL_C.__init__, lines 106-109
ValidWeightings(neg_w, pos_w) == neg_w \in Weightings /\ pos_w \in Weightings

\* the defaults of UCSL_C.__init__, n_consensus=10 being cut down to MaxConsensus
DefaultOptions ==
    [clustering |-> "spherical_gaussian_mixture", maximization |-> "linear",
     negative_weighting |-> "soft", positive_weighting |-> "hard",
     n_consensus |-> MaxConsensus, label_to_cluster |-> 1]

StrategyOptions ==
    {"clustering", "maximization", "negative_weighting", "positive_weighting"}

\* the arguments tried: n_consensus 1 or MaxConsensus, and the default
\* strategies with at most one of them set to another choice
Configurations ==
    { o \in [clustering : ClusteringChoices, maximization : MaximizationChoices,
             negative_weighting : WeightingChoices,
             positive_weighting : WeightingChoices, n_consensus : {1, MaxConsensus},
             label_to_cluster : {1}] :
        Cardinality({ f \in StrategyOptions : o[f] # DefaultOptions[f] }) <= 1 }

Init ==
    /\ pc = "new"
    /\ error = "none"
    /\ \E o \in Configurations :
        /\ clustering_method_name = o.clustering
        /\ maximization = o.maximization
        /\ negative_weighting = o.negative_weighting
        /\ positive_weighting = o.positive_weighting
        /\ n_consensus = o.n_consensus
        /\ label_to_cluster = o.label_to_cluster
    /\ coefficients = [k \in SeparatorKeys |-> NoArtifact]
    /\ intercepts = [k \in SeparatorKeys |-> NoArtifact]
    /\ orthonormal_basis = [c \in SlotKeys |-> NoArtifact]
    /\ clustering_method = [c \in SlotKeys |-> NoArtifact]
    /\ clustering_assignments = None
    /\ cluster_labels_ = None
    /\ barycenters = None
    /\ consensus = 0
    /\ iteration = 0
    /\ S = NoS
    /\ cluster_index = NoIndex
    /\ best_cluster_consistency = <<1, 1>>
    /\ ran = {}
    /\ calls = [restarts |-> 0, refinements |-> 0, fusions |-> 0]
    /\ em = NoEM
    /\ ret = NoReturn
    /\ NoGram
    /\ NoProba
    /\ NoFit
    /\ NoHydra

\* UCSL_C.__init__: a failed assert leaves no object behind
Construct ==
    /\ pc = "new"
    /\ IF /\ ValidStrategies(clustering_method_name, maximization)
          /\ ValidWeightings(negative_weighting, positive_weighting)
       THEN pc' = "constructed" /\ error' = "none"
       ELSE pc' = "rejected" /\ error' = "AssertionError"
    /\ UNCHANGED <<config, fitted, locals, ran, calls, em, ret>>
    /\ UNCHANGED <<gram, proba, hydra, relabel>>

----------------------------------------------------------------------------
(* External trainers: what they may return *)

\* initialize_clustering, lines 331-346: S over all the samples
InitialS(name) ==
    IF name = "k_means" THEN [Samples -> OneHotRows] ELSE [Samples -> ProbaRows]

\* expectation_step, lines 412-429: Q over all the samples
ExpectedQ(name) ==
    IF name = "k_means" THEN [Samples -> PositiveRows] ELSE [Samples -> ProbaRows]

----------------------------------------------------------------------------
(* UCSL_C.run: the restarts *)

\* fit and run, lines 141-146 and 283-296
BeginRun ==
    /\ pc = "constructed"
    /\ pc' = "initialize"
    /\ clustering_assignments' =
           [c \in 0 .. (n_consensus - 1) |-> [i \in index_positives |-> 0]]
    /\ consensus' = 0
    /\ UNCHANGED <<error, config, coefficients, intercepts, orthonormal_basis,
                   clustering_method, cluster_labels_, barycenters,
                   iteration, S, cluster_index, best_cluster_consistency, ran,
                   calls, em, ret>>
    /\ UNCHANGED <<gram, proba, hydra, relabel>>

\* run, lines 298-306, up to the entry of run_EM, lines 484-490
InitializeRestart ==
    /\ pc = "initialize"
    /\ IF clustering_method_name \notin RecognisedClusterings
       THEN \* "S, cluster_index = NotImplementedError" cannot be unpacked
            /\ pc' = "failed"
            /\ error' = "TypeError"
            /\ ran' = ran \cup {"initialize"}
            /\ ret' = Returned("initialize_clustering", "class", None, None, None)
            /\ UNCHANGED <<S, cluster_index, best_cluster_consistency, iteration,
                           calls, em>>
       ELSE \E seeded \in { [S |-> WeightAtInit(init, negative_weighting,
                                                  positive_weighting),
                               cluster_index |-> HardAssignment(init)] :
                              init \in InitialS(clustering_method_name) } :
            /\ S' = seeded.S
            /\ cluster_index' = seeded.cluster_index
            /\ best_cluster_consistency' = <<1, 1>>
            /\ iteration' = 0
            /\ em' = EMEntry(<<1, 1>>)
            /\ calls' = [calls EXCEPT !.restarts = @ + 1]
            /\ ran' = ran \cup {"initialize", "trainer"}
            /\ pc' = "maximize"
            /\ error' = "none"
            /\ ret' = ret
    /\ UNCHANGED <<config, fitted, consensus>>
    /\ UNCHANGED <<gram, proba, hydra, relabel>>

----------------------------------------------------------------------------
(* UCSL_C.run_EM *)

stability_threshold == <<StabNum, StabDen>>

\* a loop that makes one pass more than range(n_iterations)
LoopContinuesOnceMore(next_iteration) == next_iteration <= n_iterations

\* line 492: "for iteration in range(self.n_iterations)" has a next pass
LoopContinues(next_iteration) == next_iteration < n_iterations

\* a checkpoint test that is taken on a tie
ShouldCheckpointOnTie(cluster_consistency, best) == ~FracGT(best, cluster_consistency)

\* line 528: "if cluster_consistency > best_cluster_consistency"
ShouldCheckpoint(cluster_consistency, best) == FracGT(cluster_consistency, best)

\* the break tested against the best consistency of a restart, 1, which no
\* Adjusted Rand Index exceeds
ShouldBreakAtBest(cluster_consistency) == FracGT(cluster_consistency, <<1, 1>>)

\* line 534: "if cluster_consistency > stability_threshold: break"
ShouldBreak(cluster_consistency) == FracGT(cluster_consistency, stability_threshold)

\* a rebalance that resets the whole row of every negative sample
RebalanceRows(S0, c) ==
    [i \in Samples |-> IF i \in index_negatives THEN UniformRow ELSE S0[i]]

\* line 505: S[index_negatives, cluster] = 1 / n_clusters
Rebalance(S0, c) ==
    [i \in Samples |->
        IF i \in index_negatives THEN SetEntry(S0[i], c, 1, n_clusters) ELSE S0[i]]

\* the locals at the entry of the guards of one iteration
GuardEntry(S0, index) ==
    [S |-> S0, cluster_index |-> index, reseeds |-> 0, rebalanced |-> {},
     steps |-> << >>]

\* lines 500-505 for cluster c: steps records the S tested by line 500 and the
\* S left by line 505
RebalanceGuard(x, c) ==
    LET left == IF NegativeWeightBelowHalf(x.S, c) THEN Rebalance(x.S, c) ELSE x.S
    IN  [x EXCEPT !.S = left,
                  !.rebalanced = IF NegativeWeightBelowHalf(x.S, c)
                                 THEN @ \cup {c} ELSE @,
                  !.steps = Append(@, [cluster |-> c, tested |-> x.S, left |-> left])]

RECURSIVE GuardsFrom(_, _, _)
\* lines 494-505 from cluster c on: every (S, cluster_index) the guards can
\* leave, a reseed being a fresh call of initialize_clustering
GuardsFrom(st, c, name) ==
    IF c = n_clusters THEN {st}
    ELSE LET reseeded ==
                 IF NoPositiveWeight(st.S, c)
                 THEN { [st EXCEPT !.S = init,
                                   !.cluster_index = HardAssignment(init),
                                   !.reseeds = @ + 1] : init \in InitialS(name) }
                 ELSE {st}
             rebalanced == { RebalanceGuard(x, c) : x \in reseeded }
         IN  UNION { GuardsFrom(y, c + 1, name) : y \in rebalanced }

\* a maximization step that fits the separator of cluster 0 alone
FirstSeparatorAfterMaximization(stored, run, iter) ==
    [stored EXCEPT ![0] = Artifact(run, iter), ![-1] = NoArtifact]

\* lines 508-511 and 354-374: the stores are rebuilt without the key -1, then
\* every cluster gets the separator fitted in this iteration of this run
SeparatorsAfterMaximization(stored, run, iter) ==
    [k \in SeparatorKeys |-> IF k \in Clusters THEN Artifact(run, iter) ELSE NoArtifact]

\* lines 494-511: the guards, then one fit per cluster with weights S[:, cluster]
MaximizationStep ==
    /\ pc = "maximize"
    /\ \E g \in GuardsFrom(GuardEntry(S, cluster_index), 0, clustering_method_name) :
        /\ S' = g.S
        /\ cluster_index' = g.cluster_index
        /\ ran' = ran \cup {"maximization", "trainer"}
                      \cup (IF g.reseeds > 0 THEN {"initialize"} ELSE {})
        /\ IF HasNaN(g.S)
           THEN \* the trainer refuses sample weights that are NaN
                /\ pc' = "failed"
                /\ error' = "ValueError"
                /\ coefficients' = [k \in SeparatorKeys |-> NoArtifact]
                /\ intercepts' = [k \in SeparatorKeys |-> NoArtifact]
                /\ em' = em
           ELSE /\ pc' = "expect"
                /\ error' = "none"
                /\ coefficients' =
                       SeparatorsAfterMaximization(coefficients, consensus, iteration)
                /\ intercepts' =
                       SeparatorsAfterMaximization(intercepts, consensus, iteration)
                /\ em' = [em EXCEPT !.m_steps = @ + 1]
    /\ UNCHANGED <<config, orthonormal_basis, clustering_method,
                   clustering_assignments, cluster_labels_, barycenters,
                   consensus, iteration, best_cluster_consistency, calls, ret>>
    /\ UNCHANGED <<gram, proba, hydra, relabel>>

\* the basis of the restart that runs the expectation step, whatever
\* separators the object holds
DirectionsOfRestart(coef, run, iter) == Artifact(run, iter)

\* expectation_step, lines 397-404: the basis is built from the separators
\* self.coefficients holds when the step runs, and is identified by them
DirectionsBasis(coef, run, iter) == coef[0]

\* an expectation step that keeps the basis in slot 0 whatever the restart
BasisInFirstSlot(stored, key, made) ==
    [stored EXCEPT ![0] = made, ![-1] = made]

\* expectation_step, lines 404-406 and 413-429: the slots it writes
BasisAfterExpectation(stored, key, made) ==
    [stored EXCEPT ![key] = made, ![-1] = made]
MethodWithoutBestSlot(method, key, made, name) == [method EXCEPT ![key] = made]
MethodAfterExpectation(method, key, made, name) ==
    IF name \in GaussianMixtures
    THEN [method EXCEPT ![key] = made, ![-1] = made]
    ELSE [method EXCEPT ![key] = made]

\* lines 514-535: expectation, weighting policy, consistency, checkpoint, break
ExpectationStep ==
    /\ pc = "expect"
    /\ \E S_new \in { ApplyWeighting(Q, negative_weighting, positive_weighting) :
                        Q \in ExpectedQ(clustering_method_name) } :
       \E cluster_consistency \in { ARI(HardAssignment(S_new), HardAssignment(S)) } :
       \E improved \in { ShouldCheckpoint(cluster_consistency, best_cluster_consistency) } :
        LET made == DirectionsBasis(coefficients, consensus, iteration)
            basis1 == BasisAfterExpectation(orthonormal_basis, consensus, made)
            method1 == MethodAfterExpectation(clustering_method, consensus, made,
                                              clustering_method_name)
            leaves == ShouldBreak(cluster_consistency) \/ ~LoopContinues(iteration + 1)
        IN  \* S is a local of run_EM, which returns cluster_index alone
            /\ S' = IF leaves THEN NoS ELSE S_new
            \* np.argmax(Q[index_positives]), which the weighting policy keeps
            /\ cluster_index' = HardAssignment(S_new)
            /\ best_cluster_consistency' =
                   IF improved THEN cluster_consistency ELSE best_cluster_consistency
            /\ coefficients' =
                   IF improved THEN [coefficients EXCEPT ![-1] = coefficients[0]]
                   ELSE coefficients
            /\ intercepts' =
                   IF improved THEN [intercepts EXCEPT ![-1] = intercepts[0]]
                   ELSE intercepts
            /\ orthonormal_basis' =
                   IF improved THEN [basis1 EXCEPT ![-1] = basis1[consensus]] ELSE basis1
            /\ clustering_method' =
                   IF improved THEN [method1 EXCEPT ![-1] = method1[consensus]]
                   ELSE method1
            /\ em' = [em EXCEPT !.e_steps = @ + 1,
                                !.checkpoints = IF improved THEN @ + 1 ELSE @,
                                !.last_improved = IF improved THEN made ELSE @,
                                !.stable = FracGT(cluster_consistency, stability_threshold),
                                !.last_consistency = cluster_consistency]
            /\ IF leaves
               THEN pc' = "run_done" /\ iteration' = iteration
               ELSE pc' = "maximize" /\ iteration' = iteration + 1
    /\ ran' = ran \cup {"expectation", "trainer"}
    /\ UNCHANGED <<error, config, clustering_assignments, cluster_labels_,
                   barycenters, consensus, calls, ret>>
    /\ UNCHANGED <<gram, proba, hydra, relabel>>

\* a record that always lands in column 0
RecordedInFirstColumn(A, c, index) == [A EXCEPT ![0] = index]

\* line 309: self.clustering_assignments[:, consensus] = cluster_index
RecordedColumn(A, c, index) == [A EXCEPT ![c] = index]

\* run, lines 309-312, for a run without ensembling
RecordRestart ==
    /\ pc = "run_done"
    /\ consensus < n_consensus
    /\ clustering_assignments' =
           RecordedColumn(clustering_assignments, consensus, cluster_index)
    /\ consensus' = consensus + 1
    /\ pc' = IF consensus + 1 < n_consensus THEN "initialize"
             ELSE IF n_consensus > 1 THEN "ensemble"
             ELSE "fitted"
    /\ S' = NoS
    /\ cluster_index' = NoIndex
    /\ iteration' = 0
    /\ best_cluster_consistency' = <<1, 1>>
    /\ em' = NoEM
    /\ UNCHANGED <<error, config, coefficients, intercepts, orthonormal_basis,
                   clustering_method, cluster_labels_, barycenters, ran, calls, ret>>
    /\ UNCHANGED <<gram, proba, hydra, relabel>>

----------------------------------------------------------------------------
(* Consensus fusion *)

Columns(A) == DOMAIN A

\* every restart compared with the labels of restart 0
compute_similarity_to_first_restart(A, B) ==
    [p \in index_positives \X (DOMAIN B[0]) |->
        Cardinality({ c \in Columns(A) : A[c][p[1]] = B[0][p[2]] })]

\* compute_similarity_matrix: for a training sample j and a sample i, the
\* restarts in which both received the same label; the similarity is this
\* count over the number of restarts
compute_similarity_matrix(A, B) ==
    [p \in index_positives \X (DOMAIN B[0]) |->
        Cardinality({ c \in Columns(A) : A[c][p[1]] = B[c][p[2]] })]

Labelings == [index_positives -> Clusters]

\* how much a labeling contradicts the similarities: pairs it joins that the
\* restarts separated, plus pairs it separates that the restarts joined
Disagreement(L, sim, n) ==
    LET cost == [p \in index_positives \X index_positives |->
                    IF p[1] >= p[2] THEN 0
                    ELSE IF L[p[1]] = L[p[2]] THEN n - sim[p] ELSE sim[p]]
    IN  SumOver(cost, index_positives \X index_positives)

\* spectral clustering of a similarity matrix: the labelings that fit it best
SpectralClustering(sim, n) ==
    { L \in Labelings :
        \A L2 \in Labelings : Disagreement(L, sim, n) <= Disagreement(L2, sim, n) }

\* compute_spectral_clustering_consensus(clustering_assignments, n_clusters)
compute_spectral_clustering_consensus(A) ==
    SpectralClustering(compute_similarity_matrix(A, A), Cardinality(Columns(A)))

\* predict_clusters_proba_from_cluster_labels, lines 550-564; predicted holds
\* clustering_method[c].predict for every sample and restart c, labels is
\* cluster_labels_; a cluster without members, or a row summing to 0, gives NaN
ProbaFromClusterLabels(A, predicted, labels) ==
    LET sim == compute_similarity_matrix(A, predicted)
        members(k) == { j \in index_positives : labels[j] = k }
        size == [k \in Clusters |-> Cardinality(members(k))]
        total(i, k) == SumOver([j \in index_positives |-> sim[<<j, i>>]], members(k))
        RECURSIVE Product(_)
        Product(D) == IF D = {} THEN 1
                      ELSE LET k == CHOOSE x \in D : TRUE IN size[k] * Product(D \ {k})
        \* mean over the members of k, on the common denominator of the row
        mean(i) == [k \in Clusters |-> total(i, k) * Product(Clusters \ {k})]
    IN  [i \in Samples |->
            IF \E k \in Clusters : size[k] = 0 THEN NaNRow
            ELSE NormRow([n |-> mean(i), d |-> SumOver(mean(i), Clusters)])]

\* clustering_method[c].predict on the training set: the positive samples get
\* the label restart c recorded for them, the negative samples any label
Predictions(A) ==
    { [c \in Columns(A) |->
          [i \in Samples |-> IF i \in index_positives THEN A[c][i] ELSE neg[c][i]]] :
      neg \in [Columns(A) -> [index_negatives -> Clusters]] }

\* clustering_ensembling, lines 583-594: the consensus labels and the S that
\* seeds the final refinement
EnsembleSeeds(A, neg_w, pos_w) ==
    { [labels |-> labels,
       S |-> ApplyWeighting(ProbaFromClusterLabels(A, predicted, labels), neg_w, pos_w)] :
      labels \in compute_spectral_clustering_consensus(A), predicted \in Predictions(A) }

\* clustering_ensembling, lines 583-596, up to the entry of run_EM with
\* consensus == -1, lines 484-488
ClusteringEnsembling ==
    /\ pc = "ensemble"
    /\ \E seed \in EnsembleSeeds(clustering_assignments, negative_weighting,
                                 positive_weighting) :
        /\ cluster_labels_' = seed.labels
        /\ S' = seed.S
        /\ cluster_index' = seed.labels
    /\ consensus' = n_consensus + 1
    /\ best_cluster_consistency' = <<0, 1>>
    /\ iteration' = 0
    /\ em' = EMEntry(<<0, 1>>)
    /\ calls' = [calls EXCEPT !.refinements = @ + 1, !.fusions = @ + 1]
    /\ pc' = "maximize"
    /\ UNCHANGED <<error, config, coefficients, intercepts, orthonormal_basis,
                   clustering_method, clustering_assignments, barycenters, ran, ret>>
    /\ UNCHANGED <<gram, proba, hydra, relabel>>

\* the mean of the projected positive samples of each cluster: the basis used
\* and the samples averaged (the mean of no sample is NaN)
Barycenters(projection, index) ==
    [basis |-> projection,
     members |-> [k \in Clusters |-> { i \in index_positives : index[i] = k }]]

\* clustering_ensembling, lines 599-601
FinishEnsembling ==
    /\ pc = "run_done"
    /\ consensus = n_consensus + 1
    /\ cluster_labels_' = cluster_index
    /\ barycenters' = Barycenters(orthonormal_basis[-1], cluster_index)
    /\ pc' = "fitted"
    /\ S' = NoS
    /\ cluster_index' = NoIndex
    /\ iteration' = 0
    /\ best_cluster_consistency' = <<1, 1>>
    /\ em' = NoEM
    /\ UNCHANGED <<error, config, coefficients, intercepts, orthonormal_basis,
                   clustering_method, clustering_assignments, consensus, ran, calls,
                   ret>>
    /\ UNCHANGED <<gram, proba, hydra, relabel>>

----------------------------------------------------------------------------
(* The caller assigns the attribute clustering_method_name *)

\* obj.clustering_method_name = "k-means" between construction and fit (set to
\* a recognised name, the object is the one constructed with that name)
RenameBeforeFit ==
    /\ pc = "constructed"
    /\ clustering_method_name \in RecognisedClusterings
    /\ clustering_method_name' = "k-means"
    /\ UNCHANGED <<pc, error, maximization, negative_weighting, positive_weighting,
                   n_consensus, label_to_cluster, fitted, locals, ran, calls, em, ret>>
    /\ UNCHANGED <<gram, proba, hydra, relabel>>

\* obj.clustering_method_name = "k-means" on a fitted object
RenameAfterFit ==
    /\ pc = "fitted"
    /\ clustering_method_name \in RecognisedClusterings
    /\ clustering_method_name' = "k-means"
    /\ UNCHANGED <<pc, error, maximization, negative_weighting, positive_weighting,
                   n_consensus, label_to_cluster, fitted, locals, ran, calls, em, ret>>
    /\ UNCHANGED <<gram, proba, hydra, relabel>>

----------------------------------------------------------------------------
(* Prediction on a fitted object *)

Queries == 1 .. NQuery
ClassLabels == {0, 1}
\* y_true: None, or one ground-truth label per query point
YTrueChoices == {None} \cup [Queries -> ClassLabels]

\* line 229, the sigmoid of one query point: a multiple of 1 / ClassGrid
\* strictly between 0 and 1, or NaN (the batch maximum is 0)
ClassProbabilities ==
    { [n |-> k, d |-> ClassGrid] : k \in 1 .. (ClassGrid - 1) } \cup {[n |-> 0, d |-> 0]}

\* lines 229-230 and the np.argmax of lines 171 and 200: column label_to_cluster
\* holds p, the other column 1 - p; the first maximum wins, and column 0 on NaN
PredictedClass(p, l2c) ==
    IF p.d = 0 THEN 0
    ELSE LET column == [l \in ClassLabels |-> IF l = l2c THEN p.n ELSE p.d - p.n]
         IN  IF column[1] > column[0] THEN 1 ELSE 0

\* predict_clusters, lines 266-279: what the call hands back
PredictClustersOutcomes ==
    IF orthonormal_basis[-1] = NoArtifact
    THEN {[kind |-> "raise", value |-> "KeyError"]}
    ELSE IF clustering_method_name = "k_means"
    THEN IF barycenters = None
         THEN {[kind |-> "raise", value |-> "TypeError"]}
         ELSE IF \E k \in Clusters : barycenters.members[k] = {}
         THEN {[kind |-> "return", value |-> [i \in Queries |-> NaNRow]]}
         ELSE {[kind |-> "return", value |-> q] : q \in [Queries -> PositiveRows]}
    ELSE IF clustering_method_name \in GaussianMixtures
    THEN IF clustering_method[-1] = NoArtifact
         THEN {[kind |-> "raise", value |-> "KeyError"]}
         ELSE {[kind |-> "return", value |-> q] : q \in [Queries -> ProbaRows]}
    ELSE {[kind |-> "class", value |-> "NotImplementedError"]}

\* a direct call of predict_clusters(X)
PredictClusters ==
    /\ pc = "fitted"
    /\ \E out \in PredictClustersOutcomes :
        IF out.kind = "raise"
        THEN /\ pc' = "failed"
             /\ error' = out.value
             /\ ret' = Returned("predict_clusters", "raise", None, None, None)
        ELSE /\ pc' = "returned"
             /\ error' = "none"
             /\ ret' = Returned("predict_clusters", out.kind, None,
                                IF out.kind = "class" THEN None ELSE out.value, None)
    /\ UNCHANGED <<config, fitted, locals, ran, calls, em>>
    /\ UNCHANGED <<gram, proba, hydra, relabel>>

\* the mask put on the clustered class itself
MaskClustersOfClusteredClass(y_pred_clusters, designation, l2c) ==
    [i \in Queries |-> IF designation[i] = l2c THEN -1 ELSE y_pred_clusters[i]]

\* lines 176 and 179: y_pred_clusters[designation == (1 - label_to_cluster)] = -1
MaskClusters(y_pred_clusters, designation, l2c) ==
    [i \in Queries |-> IF designation[i] = 1 - l2c THEN -1 ELSE y_pred_clusters[i]]

\* the row -1 of lines 204 and 207
MaskedRow == [n |-> [c \in Clusters |-> -1], d |-> 1]

\* predict and predict_proba up to their masking: predict_classif_proba, which
\* subscripts the result of predict_clusters (line 227), then predict_clusters
\* again on the same X
ClassificationOutcomes ==
    { IF out.kind = "return"
      THEN [kind |-> "return", clusters |-> out.value, proba |-> p, value |-> "none"]
      ELSE [kind |-> "raise", clusters |-> None, proba |-> None,
            value |-> IF out.kind = "class" THEN "TypeError" ELSE out.value] :
      out \in PredictClustersOutcomes, p \in [Queries -> ClassProbabilities] }

\* a mask written into the stored labels of the training samples
MaskedInStoredLabels(stored, masked) == masked

\* lines 176 and 179 write the mask into y_pred_clusters, the array np.argmax
\* made at line 174, which no attribute of the object refers to
MaskedInPlace(stored, masked) == stored

\* predict(X, y_true), lines 170-180
Predict ==
    /\ pc = "fitted"
    /\ \E y_true \in YTrueChoices, out \in ClassificationOutcomes :
        IF out.kind = "raise"
        THEN /\ pc' = "failed"
             /\ error' = out.value
             /\ ret' = Returned("predict", "raise", y_true, None, None)
             /\ cluster_labels_' = cluster_labels_
        ELSE LET y_pred_clsf ==
                     [i \in Queries |-> PredictedClass(out.proba[i], label_to_cluster)]
                 y_pred_clusters == [i \in Queries |-> ArgMax(out.clusters[i])]
             IN  /\ pc' = "returned"
                 /\ error' = "none"
                 /\ ret' = IF y_true = None
                           THEN Returned("predict", "return", y_true, y_pred_clsf,
                                         MaskClusters(y_pred_clusters, y_pred_clsf,
                                                      label_to_cluster))
                           ELSE Returned("predict", "return", y_true, y_true,
                                         MaskClusters(y_pred_clusters, y_true,
                                                      label_to_cluster))
                 /\ cluster_labels_' = MaskedInPlace(cluster_labels_, ret'.second)
    /\ UNCHANGED <<config, coefficients, intercepts, orthonormal_basis,
                   clustering_method, clustering_assignments, barycenters, locals,
                   ran, calls, em>>
    /\ UNCHANGED <<gram, proba, hydra, relabel>>

\* predict_proba(X, y_true), lines 199-208
PredictProba ==
    /\ pc = "fitted"
    /\ \E y_true \in YTrueChoices, out \in ClassificationOutcomes :
        IF out.kind = "raise"
        THEN /\ pc' = "failed"
             /\ error' = out.value
             /\ ret' = Returned("predict_proba", "raise", y_true, None, None)
        ELSE LET y_pred_clsf ==
                     [i \in Queries |-> PredictedClass(out.proba[i], label_to_cluster)]
                 designation == IF y_true = None THEN y_pred_clsf ELSE y_true
             IN  /\ pc' = "returned"
                 /\ error' = "none"
                 /\ ret' = Returned("predict_proba", "return", y_true,
                                    IF y_true = None THEN out.proba ELSE y_true,
                                    [i \in Queries |->
                                        IF designation[i] = 1 - label_to_cluster
                                        THEN MaskedRow ELSE out.clusters[i]])
    /\ UNCHANGED <<config, fitted, locals, ran, calls, em>>
    /\ UNCHANGED <<gram, proba, hydra, relabel>>

\* the positive samples split between the clusters, the first against the rest
SplitLabels == [i \in index_positives |-> IF i = 1 THEN 0 ELSE 1]

\* an object after fit, every run_EM call of which ended with its first
\* iteration, the restarts and the consensus all finding SplitLabels
FittedObject(name, n_cons, l2c) ==
    LET last == IF n_cons > 1 THEN Artifact(n_cons + 1, 0) ELSE Artifact(0, 0)
        checkpointed == IF n_cons > 1 THEN last ELSE NoArtifact
    IN  [clustering_method_name |-> name, n_consensus |-> n_cons,
         label_to_cluster |-> l2c,
         coefficients |-> [k \in SeparatorKeys |->
                              IF k \in Clusters THEN last ELSE checkpointed],
         orthonormal_basis |->
             [c \in SlotKeys |->
                 IF c = -1 THEN last
                 ELSE IF c \in 0 .. (n_cons - 1) THEN Artifact(c, 0)
                 ELSE IF c = n_cons + 1 /\ n_cons > 1 THEN last
                 ELSE NoArtifact],
         clustering_method |->
             [c \in SlotKeys |->
                 IF c = -1 THEN (IF name \in GaussianMixtures THEN last ELSE checkpointed)
                 ELSE IF c \in 0 .. (n_cons - 1) THEN Artifact(c, 0)
                 ELSE IF c = n_cons + 1 /\ n_cons > 1 THEN last
                 ELSE NoArtifact],
         clustering_assignments |-> [c \in 0 .. (n_cons - 1) |-> SplitLabels],
         cluster_labels_ |-> IF n_cons > 1 THEN SplitLabels ELSE None,
         barycenters |-> IF n_cons > 1 THEN Barycenters(last, SplitLabels) ELSE None,
         consensus |-> IF n_cons > 1 THEN n_cons + 1 ELSE 1,
         calls |-> IF n_cons > 1
                   THEN [restarts |-> n_cons, refinements |-> 1, fusions |-> 1]
                   ELSE [restarts |-> 1, refinements |-> 0, fusions |-> 0]]

\* the state is that of the fitted object o, fit with the default strategies
IsFitted(o) ==
    /\ pc = "fitted"
    /\ error = "none"
    /\ clustering_method_name = o.clustering_method_name
    /\ maximization = DefaultOptions.maximization
    /\ negative_weighting = DefaultOptions.negative_weighting
    /\ positive_weighting = DefaultOptions.positive_weighting
    /\ n_consensus = o.n_consensus
    /\ label_to_cluster = o.label_to_cluster
    /\ coefficients = o.coefficients
    /\ intercepts = o.coefficients
    /\ orthonormal_basis = o.orthonormal_basis
    /\ clustering_method = o.clustering_method
    /\ clustering_assignments = o.clustering_assignments
    /\ cluster_labels_ = o.cluster_labels_
    /\ barycenters = o.barycenters
    /\ consensus = o.consensus
    /\ iteration = 0
    /\ S = NoS
    /\ cluster_index = NoIndex
    /\ best_cluster_consistency = <<1, 1>>
    /\ ran = {"initialize", "trainer", "maximization", "expectation"}
    /\ calls = o.calls
    /\ em = NoEM
    /\ ret = NoReturn
    /\ NoGram
    /\ NoProba
    /\ NoFit
    /\ NoHydra

FittedObjects ==
    { FittedObject(name, n_cons, l2c) :
        name \in RecognisedClusterings, n_cons \in {1, MaxConsensus},
        l2c \in ClassLabels }

InitFitted == \E o \in FittedObjects : IsFitted(o)

\* predict_classif_proba(X) called by the user, lines 220-232
PredictClassifProba ==
    /\ pc = "fitted"
    /\ \E out \in ClassificationOutcomes :
        IF out.kind = "raise"
        THEN /\ pc' = "failed"
             /\ error' = out.value
             /\ ret' = Returned("predict_classif_proba", "raise", None, None, None)
        ELSE /\ pc' = "returned"
             /\ error' = "none"
             /\ ret' = Returned("predict_classif_proba", "return", None, out.proba, None)
    /\ UNCHANGED <<config, fitted, locals, ran, calls, em>>
    /\ UNCHANGED <<gram, proba, hydra, relabel>>

\* compute_distances_to_hyperplanes(X) called by the user, lines 246-253; a
\* store emptied by lines 508-509 has no element 0
ComputeDistancesToHyperplanes ==
    /\ pc = "fitted"
    /\ IF \E k \in Clusters : coefficients[k] = NoArtifact \/ intercepts[k] = NoArtifact
       THEN /\ pc' = "failed"
            /\ error' = "IndexError"
            /\ ret' = Returned("compute_distances_to_hyperplanes", "raise", None, None, None)
       ELSE /\ pc' = "returned"
            /\ error' = "none"
            /\ \E d \in [Queries -> [Clusters -> -1 .. 1]] :
                ret' = Returned("compute_distances_to_hyperplanes", "return", None, d, None)
    /\ UNCHANGED <<config, fitted, locals, ran, calls, em>>
    /\ UNCHANGED <<gram, proba, hydra, relabel>>

\* the caller has the result, or has caught the exception, and is free to
\* make the next call; ran keeps the methods called so far
NextCall ==
    /\ pc \in {"returned", "failed"}
    /\ pc' = "fitted"
    /\ error' = "none"
    /\ ran' = ran \cup {ret.op}
    /\ UNCHANGED <<config, fitted, locals, calls, em, ret>>
    /\ UNCHANGED <<gram, proba, hydra, relabel>>

NextCalls ==
    \/ PredictClusters
    \/ Predict
    \/ PredictProba
    \/ PredictClassifProba
    \/ ComputeDistancesToHyperplanes
    \/ NextCall

\* any sequence of prediction calls on a fitted object
CallsSpec == InitFitted /\ [][NextCalls]_vars

NextPredict ==
    \/ RenameAfterFit
    \/ PredictClusters
    \/ Predict
    \/ PredictProba

\* the prediction methods called on a fitted object
PredictSpec == InitFitted /\ [][NextPredict]_vars

Next ==
    \/ Construct
    \/ RenameBeforeFit
    \/ BeginRun
    \/ InitializeRestart
    \/ MaximizationStep
    \/ ExpectationStep
    \/ RecordRestart
    \/ ClusteringEnsembling
    \/ FinishEnsembling

Spec == Init /\ [][Next]_vars

----------------------------------------------------------------------------
(* Properties of run_EM *)

\* a run_EM call is between two of its steps, or has just returned
InRunEM == pc \in {"maximize", "expect", "run_done"}
\* S has just been through the weighting policy: at the entry of run_EM (from
\* run or from clustering_ensembling) and after the policy of an iteration
PolicyApplied == pc = "maximize"
\* the call of run_EM made by clustering_ensembling
FinalRefinement == InRunEM /\ consensus = n_consensus + 1

\* C1: a run_EM call runs at most n_iterations maximization steps and at most
\* n_iterations expectation steps, one expectation step per maximization step,
\* and once an iteration's consistency exceeds stability_threshold the call has
\* returned: no further step of that call is pending.
C1_IterationCapAndImmediateStop ==
    /\ em.m_steps <= n_iterations
    /\ em.e_steps <= em.m_steps
    /\ em.m_steps <= em.e_steps + 1
    /\ (pc = "expect" <=> (InRunEM /\ em.m_steps = em.e_steps + 1))
    /\ (em.stable => pc = "run_done")
    /\ (pc = "maximize" => em.m_steps < n_iterations)

\* C1: a call that stopped after its first iteration, before the cap
C1_StoppedEarly ==
    pc = "run_done" /\ em.stable /\ em.m_steps = 1 /\ em.e_steps = 1 /\ 1 < n_iterations

\* C2: whenever the weighting policy has been applied, every positive row of S
\* sums to 1 under 'soft', is one-hot under 'hard' and is 1/K in every entry
\* under 'uniform'.
C2_PositiveRowsAreDistributions ==
    PolicyApplied =>
        \A i \in index_positives :
            /\ positive_weighting = "soft" => SumsToOne(S[i])
            /\ positive_weighting = "hard" => IsOneHot(S[i])
            /\ positive_weighting = "uniform" => IsUniform(S[i])

\* the best-so-far slot of every store
BestSlot == <<coefficients[-1], intercepts[-1], orthonormal_basis[-1],
              clustering_method[-1]>>

\* C4: when run_EM returns after a checkpoint, the best-so-far slot holds the
\* artifacts of the last iteration that improved on the running best, and an
\* iteration that does not improve on it leaves the slot as it was.
C4_BestSlotIsLastImprovement ==
    /\ [](pc = "run_done" /\ em.checkpoints > 0 =>
            BestSlot = <<em.last_improved, em.last_improved, em.last_improved,
                         em.last_improved>>)
    /\ [][(InRunEM /\ InRunEM' /\ em'.checkpoints = em.checkpoints /\ consensus' = consensus)
            => BestSlot' = BestSlot]_vars

\* C5: the final refinement, once it has run an iteration and returned, has
\* taken a checkpoint.
C5_RefinementCheckpoints ==
    (FinalRefinement /\ pc = "run_done" /\ em.e_steps >= 1) => em.checkpoints >= 1

----------------------------------------------------------------------------
(* Properties of the consensus step *)

\* the permutations of the cluster labels
LabelPermutations ==
    { f \in [Clusters -> Clusters] : \A a, b \in Clusters : f[a] = f[b] => a = b }
\* A with the labels of each column c renamed by perm[c]
Relabel(A, perm) == [c \in DOMAIN A |-> [i \in DOMAIN A[c] |-> perm[c][A[c][i]]]]
\* a labeling up to the names of its labels
PartitionOf(L) == { { i \in DOMAIN L : L[i] = k } : k \in Clusters } \ {{}}
FusedPartitions(A) ==
    { PartitionOf(L) : L \in compute_spectral_clustering_consensus(A) }

\* C3: renaming the labels inside any columns of clustering_assignments, each
\* column by a permutation of its own, changes no pairwise similarity and no
\* fused partition.
C3_RelabelingInvariance ==
    pc = "ensemble" =>
        \A perm \in [Columns(clustering_assignments) -> LabelPermutations] :
            LET B == Relabel(clustering_assignments, perm)
            IN  /\ compute_similarity_matrix(B, B) =
                       compute_similarity_matrix(clustering_assignments,
                                                 clustering_assignments)
                /\ FusedPartitions(B) = FusedPartitions(clustering_assignments)

\* C3: restarts that disagree, one splitting the positive samples and one not
C3_RestartsDisagree ==
    /\ pc = "ensemble"
    /\ \E c, d \in Columns(clustering_assignments) :
        /\ clustering_assignments[c][1] # clustering_assignments[c][2]
        /\ clustering_assignments[d][1] = clustering_assignments[d][2]

\* the S handed to the final refinement, before its first maximization step
SeedState == pc = "maximize" /\ consensus = n_consensus + 1 /\ em.m_steps = 0

\* the negative rows of the seed follow negative_weighting, and one refinement
\* with floor 0 is entered
SeedNegativesAndFloor ==
    /\ \A i \in index_negatives :
        /\ negative_weighting = "uniform" => IsUniform(S[i])
        /\ negative_weighting = "hard" => IsOneHot(S[i])
    /\ calls.refinements = 1
    /\ best_cluster_consistency = <<0, 1>>

\* C6, as stated: every positive row of the seed is one-hot at the consensus
\* label of its sample, whatever positive_weighting is.
C6_SeedIsOneHotAtConsensusLabel ==
    SeedState =>
        /\ \A i \in index_positives : S[i] = one_hot_encode(cluster_labels_[i])
        /\ SeedNegativesAndFloor

\* C6, amended: the seed is the similarity-derived Q of
\* predict_clusters_proba_from_cluster_labels with the weighting policy applied:
\* a positive row is one-hot, at the argmax of its row of Q, under 'hard' and is
\* its row of Q otherwise; negative rows follow negative_weighting; one
\* refinement is entered, with floor 0, and fit makes no other.
C6_SeedIsWeightedSimilarity ==
    /\ SeedState =>
        /\ \E predicted \in Predictions(clustering_assignments) :
            LET Q == ProbaFromClusterLabels(clustering_assignments, predicted,
                                            cluster_labels_)
            IN  /\ \A i \in index_positives :
                       S[i] = IF positive_weighting = "hard"
                              THEN one_hot_encode(ArgMax(Q[i])) ELSE Q[i]
                /\ \A i \in index_negatives :
                       negative_weighting = "soft" => S[i] = Q[i]
        /\ SeedNegativesAndFloor
    /\ (pc = "fitted" /\ n_consensus > 1) => (calls.refinements = 1 /\ calls.fusions = 1)
    /\ n_consensus = 1 => (calls.refinements = 0 /\ calls.fusions = 0)

\* C6: a seed whose positive rows are soft
C6_SoftSeed ==
    /\ SeedState
    /\ positive_weighting = "soft"
    /\ \E i \in index_positives : ~IsNaN(S[i]) /\ ~IsOneHot(S[i])

\* C7: after fit with n_consensus = 1, one restart ran, no fusion and no
\* refinement, cluster_labels_ is that restart's assignment, and predict finds a
\* separator per cluster, the best basis and the model or the barycenters.
C7_SingleRestartIsFinal ==
    (pc = "fitted" /\ n_consensus = 1) =>
        /\ calls = [restarts |-> 1, refinements |-> 0, fusions |-> 0]
        /\ cluster_labels_ = clustering_assignments[0]
        /\ \A k \in Clusters : coefficients[k] # NoArtifact /\ intercepts[k] # NoArtifact
        /\ orthonormal_basis[-1] # NoArtifact
        /\ IF clustering_method_name = "k_means" THEN barycenters # None
           ELSE clustering_method[-1] # NoArtifact

----------------------------------------------------------------------------
(* Properties of the construction *)

----------------------------------------------------------------------------
(* Properties of the prediction methods *)

C10_UnrecognisedNameRaises ==
    (/\ clustering_method_name \notin RecognisedClusterings
     /\ ret.op \in {"initialize_clustering", "predict_clusters"})
        => (ret.kind = "raise" /\ pc = "failed" /\ error = "NotImplementedError")

----------------------------------------------------------------------------
(* Termination of fit *)

\* the constructor or fit has returned or raised
FitEnded == pc \in {"fitted", "failed", "rejected"}

\* steps one run_EM call and its surroundings take at most: the entry, a
\* maximization and an expectation step per iteration, the return
StepsOfRun == 2 * n_iterations + 2

\* the run_EM calls still to be entered
RunsAhead ==
    IF pc = "ensemble" \/ consensus = n_consensus + 1 THEN 0
    ELSE (n_consensus - consensus - 1) + (IF n_consensus > 1 THEN 1 ELSE 0)

\* a bound on the steps fit has left to take
StepsLeft ==
    LET all == StepsOfRun * (n_consensus + (IF n_consensus > 1 THEN 1 ELSE 0))
    IN  CASE FitEnded -> 0
          [] pc = "new" -> all + 3
          [] pc = "constructed" ->
                all + (IF clustering_method_name \in RecognisedClusterings THEN 2 ELSE 1)
          [] pc \in {"initialize", "ensemble"} -> StepsOfRun * (RunsAhead + 1)
          [] pc = "maximize" ->
                2 * (n_iterations - iteration) + 1 + StepsOfRun * RunsAhead
          [] pc = "expect" -> 2 * (n_iterations - iteration) + StepsOfRun * RunsAhead
          [] pc = "run_done" -> 1 + StepsOfRun * RunsAhead

\* the statement fit stands at can execute: the loops of run and run_EM have
\* a next pass or an exit, and the calls made have something to return
StepPossible ==
    CASE pc \in {"new", "constructed", "initialize", "expect"} -> TRUE
      [] pc = "maximize" ->
            \A c \in Clusters :
                NoPositiveWeight(S, c) => InitialS(clustering_method_name) # {}
      [] pc = "run_done" -> consensus < n_consensus \/ consensus = n_consensus + 1
      [] pc = "ensemble" ->
            compute_spectral_clustering_consensus(clustering_assignments) # {}
      [] OTHER -> FALSE

\* C11: fit ends: every step lowers the bound StepsLeft on the steps left,
\* and a step is possible until the constructor or fit has returned or raised;
\* when fit returns it has run n_consensus restarts and, only when
\* n_consensus > 1, one final refinement; a run_EM call makes at most
\* n_iterations iterations and returns only at the iteration cap or on a
\* consistency above stability_threshold; the guards of an iteration leave the
\* iteration counter alone, which always equals the number of expectation
\* steps made.
C11_FitTerminates ==
    /\ [][StepsLeft' < StepsLeft]_vars
    /\ [](StepsLeft >= 0 /\ (~FitEnded => StepPossible))
    /\ [](pc = "fitted" =>
            /\ calls.restarts = n_consensus
            /\ calls.refinements = (IF n_consensus > 1 THEN 1 ELSE 0))
    /\ [](/\ calls.restarts <= n_consensus
          /\ calls.refinements <= 1
          /\ em.m_steps <= n_iterations
          /\ em.e_steps <= n_iterations
          /\ (pc \in {"maximize", "expect"} => iteration = em.e_steps))
    /\ [][(pc = "expect" /\ pc' = "run_done") =>
            (em'.stable \/ em'.e_steps = n_iterations)]_vars
    /\ [][(pc = "maximize" /\ pc' = "expect") => iteration' = iteration]_vars

\* C11: fit has returned after MaxConsensus restarts and the final refinement
C11_FittedAfterRefinement ==
    /\ pc = "fitted"
    /\ n_consensus = MaxConsensus
    /\ calls.restarts = MaxConsensus
    /\ calls.refinements = 1

----------------------------------------------------------------------------
(* The S handed to maximization_step *)

\* maximization_step has run on S and its expectation step is to come: S is
\* the matrix the guards of lines 494-505 left
FitOnS == pc = "expect"

\* C17: the S a maximization step has been run on has a non-zero positive
\* weight in every cluster.
C17_NoEmptyClusterIsFit ==
    FitOnS => \A c \in Clusters : ~NoPositiveWeight(S, c)

----------------------------------------------------------------------------
(* The rebalance of the negative weights *)

\* entry k of two rows holds the same value
SameEntry(r1, r2, k) ==
    /\ IsNaN(r1) <=> IsNaN(r2)
    /\ r1.n[k] * r2.d = r2.n[k] * r1.d

\* the maximum of S[index_negatives, c] is below 0.5
MaxNegativeBelowHalf(S0, c) ==
    \A i \in index_negatives : ~IsNaN(S0[i]) /\ 2 * S0[i].n[c] < S0[i].d

\* lines 500-505 for cluster c took the matrix before to the matrix after
RebalanceFrame(before, after, c) ==
    /\ MaxNegativeBelowHalf(before, c) =>
            \A i \in index_negatives :
                ~IsNaN(after[i]) /\ after[i].n[c] * n_clusters = after[i].d
    /\ ~MaxNegativeBelowHalf(before, c) =>
            \A i \in index_negatives : SameEntry(after[i], before[i], c)
    /\ \A i \in index_positives : SameEntry(after[i], before[i], c)

\* C18: in every iteration and for every cluster c, the rebalance of lines
\* 500-505 sets the negative weights of c to 1/K when their maximum is below
\* 0.5 and leaves them alone otherwise, and changes neither a positive entry
\* nor an entry of another cluster; in an iteration without reseed this
\* relates the S the iteration starts with to the S it fits on.
C18_RebalanceFrame ==
    /\ [](pc = "maximize" =>
            \A g \in GuardsFrom(GuardEntry(S, cluster_index), 0,
                                clustering_method_name) :
                \A k \in 1 .. Len(g.steps) :
                    /\ RebalanceFrame(g.steps[k].tested, g.steps[k].left,
                                      g.steps[k].cluster)
                    /\ \A i \in Samples : \A j \in Clusters \ {g.steps[k].cluster} :
                            SameEntry(g.steps[k].left[i], g.steps[k].tested[i], j))
    /\ [][(/\ pc = "maximize"
           /\ pc' = "expect"
           /\ \A c \in Clusters : ~NoPositiveWeight(S, c))
            => \A c \in Clusters : RebalanceFrame(S, S', c)]_vars

\* C18: a fit on an S in which the rebalance reset one cluster of a negative
\* row and left another at a weight above 0.5: the row sums to more than 1
C18_OneClusterRebalanced ==
    /\ FitOnS
    /\ \E i \in index_negatives :
            /\ ~IsNaN(S[i])
            /\ RowSum(S[i]) > S[i].d
            /\ \E c \in Clusters : S[i].n[c] * n_clusters = S[i].d

----------------------------------------------------------------------------
(* The weighting policies and the guards *)

\* C19: the S a maximization step has been run on conforms to the weighting
\* policies: its negative rows are 1/K in every entry under negative_weighting
\* 'uniform' and one-hot under 'hard', its positive rows are one-hot under
\* positive_weighting 'hard'.
C19_FitOnPolicyConformingS ==
    FitOnS =>
        /\ \A i \in index_negatives :
                /\ negative_weighting = "uniform" => IsUniform(S[i])
                /\ negative_weighting = "hard" => IsOneHot(S[i])
        /\ \A i \in index_positives :
                positive_weighting = "hard" => IsOneHot(S[i])

\* C20: in the S a maximization step has been run on, every cluster has a
\* negative sample whose weight is at least min(0.5, 1/K).
C20_EveryClusterHasNegativeWeight ==
    FitOnS =>
        \A c \in Clusters :
            \E i \in index_negatives :
                /\ ~IsNaN(S[i])
                /\ (2 * S[i].n[c] >= S[i].d \/ n_clusters * S[i].n[c] >= S[i].d)

----------------------------------------------------------------------------
(* Two restarts of run with their steps interleaved *)

(* The restarts of one object taken as concurrent activities: each has its    *)
(* own locals of run and run_EM (pc, iteration, S, cluster_index and           *)
(* best_cluster_consistency are functions of the restart) and all of them      *)
(* write the attributes of the one object.  A step is one of the calls run_EM  *)
(* makes in an iteration, with the statements that follow it.                  *)

Restarts == 0 .. (MaxConsensus - 1)

InitInterleaved ==
    /\ pc = [r \in Restarts |-> "initialize"]
    /\ error = "none"
    /\ clustering_method_name = DefaultOptions.clustering
    /\ maximization = DefaultOptions.maximization
    /\ negative_weighting = DefaultOptions.negative_weighting
    /\ positive_weighting = DefaultOptions.positive_weighting
    /\ n_consensus = MaxConsensus
    /\ label_to_cluster = DefaultOptions.label_to_cluster
    /\ coefficients = [k \in SeparatorKeys |-> NoArtifact]
    /\ intercepts = [k \in SeparatorKeys |-> NoArtifact]
    /\ orthonormal_basis = [c \in SlotKeys |-> NoArtifact]
    /\ clustering_method = [c \in SlotKeys |-> NoArtifact]
    /\ clustering_assignments = [c \in Restarts |-> [i \in index_positives |-> 0]]
    /\ cluster_labels_ = None
    /\ barycenters = None
    /\ consensus = [r \in Restarts |-> r]
    /\ iteration = [r \in Restarts |-> 0]
    /\ S = [r \in Restarts |-> NoS]
    /\ cluster_index = [r \in Restarts |-> NoIndex]
    /\ best_cluster_consistency = [r \in Restarts |-> <<1, 1>>]
    /\ ran = {}
    /\ calls = [restarts |-> 0, refinements |-> 0, fusions |-> 0]
    /\ em = NoEM
    /\ ret = NoReturn
    /\ NoGram
    /\ NoProba
    /\ NoFit
    /\ NoHydra

\* run, lines 298-306, for restart r
InitializeOf(r) ==
    /\ pc[r] = "initialize"
    /\ clustering_method_name \in RecognisedClusterings
    /\ \E seeded \in { [S |-> WeightAtInit(init, negative_weighting,
                                           positive_weighting),
                        cluster_index |-> HardAssignment(init)] :
                       init \in InitialS(clustering_method_name) } :
        /\ S' = [S EXCEPT ![r] = seeded.S]
        /\ cluster_index' = [cluster_index EXCEPT ![r] = seeded.cluster_index]
    /\ best_cluster_consistency' = [best_cluster_consistency EXCEPT ![r] = <<1, 1>>]
    /\ iteration' = [iteration EXCEPT ![r] = 0]
    /\ calls' = [calls EXCEPT !.restarts = @ + 1]
    /\ pc' = [pc EXCEPT ![r] = "maximize"]
    /\ UNCHANGED <<error, config, fitted, consensus, ran, em, ret>>
    /\ UNCHANGED <<gram, proba, hydra, relabel>>

\* run_EM, lines 494-511, for restart r: the separators are attributes of the
\* object, rebuilt whole
MaximizationOf(r) ==
    /\ pc[r] = "maximize"
    /\ \E g \in { [S |-> x.S, cluster_index |-> x.cluster_index] :
                    x \in GuardsFrom(GuardEntry(S[r], cluster_index[r]), 0,
                                     clustering_method_name) } :
        /\ S' = [S EXCEPT ![r] = g.S]
        /\ cluster_index' = [cluster_index EXCEPT ![r] = g.cluster_index]
        /\ IF HasNaN(g.S)
           THEN /\ pc' = [pc EXCEPT ![r] = "failed"]
                /\ coefficients' = [k \in SeparatorKeys |-> NoArtifact]
                /\ intercepts' = [k \in SeparatorKeys |-> NoArtifact]
           ELSE /\ pc' = [pc EXCEPT ![r] = "expect"]
                /\ coefficients' =
                       [k \in SeparatorKeys |->
                           IF k \in Clusters THEN Artifact(r, iteration[r])
                           ELSE NoArtifact]
                /\ intercepts' =
                       [k \in SeparatorKeys |->
                           IF k \in Clusters THEN Artifact(r, iteration[r])
                           ELSE NoArtifact]
    /\ UNCHANGED <<error, config, orthonormal_basis, clustering_method,
                   clustering_assignments, cluster_labels_, barycenters,
                   consensus, iteration, best_cluster_consistency, ran, calls, em,
                   ret>>
    /\ UNCHANGED <<gram, proba, hydra, relabel>>

\* run_EM, lines 514-535, for restart r: expectation_step reads the separators
\* the object holds
ExpectationOf(r) ==
    /\ pc[r] = "expect"
    /\ \E S_new \in { ApplyWeighting(Q, negative_weighting, positive_weighting) :
                        Q \in ExpectedQ(clustering_method_name) } :
       \E cluster_consistency \in
              { ARI(HardAssignment(S_new), HardAssignment(S[r])) } :
       \E improved \in { ShouldCheckpoint(cluster_consistency,
                                          best_cluster_consistency[r]) } :
        LET made == DirectionsBasis(coefficients, r, iteration[r])
            basis1 == BasisAfterExpectation(orthonormal_basis, r, made)
            method1 == MethodAfterExpectation(clustering_method, r, made,
                                              clustering_method_name)
            leaves == ShouldBreak(cluster_consistency)
                          \/ ~LoopContinues(iteration[r] + 1)
        IN  /\ S' = [S EXCEPT ![r] = IF leaves THEN NoS ELSE S_new]
            /\ cluster_index' = [cluster_index EXCEPT ![r] = HardAssignment(S_new)]
            /\ best_cluster_consistency' =
                   IF improved
                   THEN [best_cluster_consistency EXCEPT ![r] = cluster_consistency]
                   ELSE best_cluster_consistency
            /\ coefficients' =
                   IF improved THEN [coefficients EXCEPT ![-1] = coefficients[0]]
                   ELSE coefficients
            /\ intercepts' =
                   IF improved THEN [intercepts EXCEPT ![-1] = intercepts[0]]
                   ELSE intercepts
            /\ orthonormal_basis' =
                   IF improved THEN [basis1 EXCEPT ![-1] = basis1[r]] ELSE basis1
            /\ clustering_method' =
                   IF improved THEN [method1 EXCEPT ![-1] = method1[r]] ELSE method1
            /\ IF leaves
               THEN /\ pc' = [pc EXCEPT ![r] = "run_done"]
                    /\ iteration' = iteration
               ELSE /\ pc' = [pc EXCEPT ![r] = "maximize"]
                    /\ iteration' = [iteration EXCEPT ![r] = @ + 1]
    /\ UNCHANGED <<error, config, clustering_assignments, cluster_labels_,
                   barycenters, consensus, ran, calls, em, ret>>
    /\ UNCHANGED <<gram, proba, hydra, relabel>>

\* run, line 309, for restart r
RecordOf(r) ==
    /\ pc[r] = "run_done"
    /\ clustering_assignments' = [clustering_assignments EXCEPT ![r] = cluster_index[r]]
    /\ cluster_index' = [cluster_index EXCEPT ![r] = NoIndex]
    /\ pc' = [pc EXCEPT ![r] = "recorded"]
    /\ UNCHANGED <<error, config, coefficients, intercepts, orthonormal_basis,
                   clustering_method, cluster_labels_, barycenters, consensus,
                   iteration, S, best_cluster_consistency, ran, calls, em, ret>>
    /\ UNCHANGED <<gram, proba, hydra, relabel>>

NextInterleaved ==
    \/ \E r \in Restarts : InitializeOf(r)
    \/ \E r \in Restarts : MaximizationOf(r)
    \/ \E r \in Restarts : ExpectationOf(r)
    \/ \E r \in Restarts : RecordOf(r)

InterleavedSpec == InitInterleaved /\ [][NextInterleaved]_vars

\* restart r has returned from run_EM and its column is written
Recorded(r) == pc[r] = "recorded"

\* C12 (as stated): whatever the interleaving, the basis and the clustering
\* model kept for a recorded restart were built from separators that restart
\* fit itself.
C12_RestartsAreIndependent ==
    \A r \in Restarts :
        Recorded(r) => orthonormal_basis[r].run = r /\ clustering_method[r].run = r

\* C12 (amended): the basis and the model an expectation step keeps for
\* restart r are built from the separators the object holds when the step
\* runs; they are the ones r fit in the same iteration when no maximization
\* step of another restart came in between, and a restart that made all its
\* steps before any other restart started keeps artifacts of its own.
C12_ArtifactsFollowSharedSeparators ==
    /\ [][\A r \in Restarts :
            (pc[r] = "expect" /\ pc'[r] # "expect") =>
                /\ orthonormal_basis'[r] = coefficients[0]
                /\ clustering_method'[r] = coefficients[0]
                /\ (coefficients[0].run = r =>
                        orthonormal_basis'[r] = Artifact(r, iteration[r]))]_vars
    /\ [](\A r \in Restarts :
            (Recorded(r) /\ \A q \in Restarts \ {r} : pc[q] = "initialize") =>
                orthonormal_basis[r].run = r /\ clustering_method[r].run = r)

\* C12: a recorded restart whose basis was built from the separators of
\* another restart
C12_BasisOfAnotherRestart ==
    \E r \in Restarts :
        /\ Recorded(r)
        /\ orthonormal_basis[r].run \in Restarts \ {r}

----------------------------------------------------------------------------
(* Two executions of fit side by side *)

(* The state of one execution of fit is a record x of the attributes of its   *)
(* object and of the locals of run and run_EM; em holds one such record per   *)
(* execution.  Each step of fit is a function of the record and of what the   *)
(* external calls of the step return (the draw).                              *)

Executions == {1, 2}

\* an object on which fit has not been called
NewObject ==
    [pc |-> "constructed", consensus |-> 0, iteration |-> 0, S |-> NoS,
     cluster_index |-> NoIndex, best_cluster_consistency |-> <<1, 1>>,
     coefficients |-> [k \in SeparatorKeys |-> NoArtifact],
     intercepts |-> [k \in SeparatorKeys |-> NoArtifact],
     orthonormal_basis |-> [c \in SlotKeys |-> NoArtifact],
     clustering_method |-> [c \in SlotKeys |-> NoArtifact],
     clustering_assignments |-> None, cluster_labels_ |-> None,
     barycenters |-> None]

\* the second execution runs on an object that an earlier fit has used
ObjectOfEarlierFit(e) ==
    IF e = 1 THEN NewObject
    ELSE [NewObject EXCEPT !.orthonormal_basis[-1] = Artifact(0, 0),
                           !.clustering_method[-1] = Artifact(0, 0)]

\* the object of execution e as __init__ leaves it, lines 111-126
FreshObject(e) == NewObject

\* what the external calls of the next step of x can return
Draws(x) ==
    CASE x.pc \in {"constructed", "run_done"} -> {None}
      [] x.pc = "initialize" -> InitialS(clustering_method_name)
      [] x.pc = "maximize" ->
            { [S |-> g.S, cluster_index |-> g.cluster_index] :
                g \in GuardsFrom(GuardEntry(x.S, x.cluster_index), 0,
                                 clustering_method_name) }
      [] x.pc = "expect" -> ExpectedQ(clustering_method_name)
      [] x.pc = "ensemble" ->
            EnsembleSeeds(x.clustering_assignments, negative_weighting,
                          positive_weighting)
      [] OTHER -> {}

\* fit and run, lines 141-146 and 283-296
BeginRunOn(x) ==
    [x EXCEPT !.pc = "initialize",
              !.clustering_assignments =
                  [c \in 0 .. (n_consensus - 1) |-> [i \in index_positives |-> 0]],
              !.consensus = 0]

\* run, lines 298-306, init being the S of initialize_clustering
InitializeRestartOn(x, init) ==
    [x EXCEPT !.S = WeightAtInit(init, negative_weighting, positive_weighting),
              !.cluster_index = HardAssignment(init),
              !.best_cluster_consistency = <<1, 1>>,
              !.iteration = 0,
              !.pc = "maximize"]

\* run_EM, lines 494-511, g being the S and cluster_index the guards leave
MaximizationStepOn(x, g) ==
    IF HasNaN(g.S)
    THEN [x EXCEPT !.S = g.S, !.cluster_index = g.cluster_index,
                   !.pc = "failed",
                   !.coefficients = [k \in SeparatorKeys |-> NoArtifact],
                   !.intercepts = [k \in SeparatorKeys |-> NoArtifact]]
    ELSE LET fit == [k \in SeparatorKeys |->
                        IF k \in Clusters THEN Artifact(x.consensus, x.iteration)
                        ELSE NoArtifact]
         IN  [x EXCEPT !.S = g.S, !.cluster_index = g.cluster_index,
                       !.pc = "expect", !.coefficients = fit, !.intercepts = fit]

\* run_EM, lines 526-535: checkpoint and exit, S_new being the S the weighting
\* policy left and cluster_consistency its consistency with the previous S
AfterConsistency(x, S_new, cluster_consistency, improved, leaves) ==
    LET made == DirectionsBasis(x.coefficients, x.consensus, x.iteration)
        basis1 == BasisAfterExpectation(x.orthonormal_basis, x.consensus, made)
        method1 == MethodAfterExpectation(x.clustering_method, x.consensus, made,
                                          clustering_method_name)
    IN  [x EXCEPT
            !.S = IF leaves THEN NoS ELSE S_new,
            !.cluster_index = HardAssignment(S_new),
            !.best_cluster_consistency = IF improved THEN cluster_consistency ELSE @,
            !.coefficients =
                IF improved THEN [@ EXCEPT ![-1] = x.coefficients[0]] ELSE @,
            !.intercepts =
                IF improved THEN [@ EXCEPT ![-1] = x.intercepts[0]] ELSE @,
            !.orthonormal_basis =
                IF improved THEN [basis1 EXCEPT ![-1] = basis1[x.consensus]]
                ELSE basis1,
            !.clustering_method =
                IF improved THEN [method1 EXCEPT ![-1] = method1[x.consensus]]
                ELSE method1,
            !.iteration = IF leaves THEN @ ELSE @ + 1,
            !.pc = IF leaves THEN "run_done" ELSE "maximize"]

\* run_EM, lines 514-535, Q being the memberships of expectation_step
ExpectationStepOn(x, Q) ==
    CHOOSE y \in
        { AfterConsistency(x, w.S_new, w.consistency,
                           ShouldCheckpoint(w.consistency, x.best_cluster_consistency),
                           ShouldBreak(w.consistency) \/ ~LoopContinues(x.iteration + 1)) :
            w \in { [S_new |-> S_new,
                     consistency |-> ARI(HardAssignment(S_new), HardAssignment(x.S))] :
                    S_new \in { ApplyWeighting(Q, negative_weighting,
                                               positive_weighting) } } } : TRUE

\* run, lines 309-312, and clustering_ensembling, lines 599-601
ReturnFromRunOn(x) ==
    IF x.consensus = n_consensus + 1
    THEN [x EXCEPT !.cluster_labels_ = x.cluster_index,
                   !.barycenters = Barycenters(x.orthonormal_basis[-1],
                                               x.cluster_index),
                   !.pc = "fitted", !.S = NoS, !.cluster_index = NoIndex,
                   !.iteration = 0, !.best_cluster_consistency = <<1, 1>>]
    ELSE [x EXCEPT !.clustering_assignments[x.consensus] = x.cluster_index,
                   !.consensus = @ + 1,
                   !.pc = IF x.consensus + 1 < n_consensus THEN "initialize"
                          ELSE IF n_consensus > 1 THEN "ensemble"
                          ELSE "fitted",
                   !.S = NoS, !.cluster_index = NoIndex, !.iteration = 0,
                   !.best_cluster_consistency = <<1, 1>>]

\* clustering_ensembling, lines 583-596, seed being the consensus labels and
\* the S computed from them
ClusteringEnsemblingOn(x, seed) ==
    [x EXCEPT !.cluster_labels_ = seed.labels,
              !.S = seed.S,
              !.cluster_index = seed.labels,
              !.consensus = n_consensus + 1,
              !.best_cluster_consistency = <<0, 1>>,
              !.iteration = 0,
              !.pc = "maximize"]

\* the step fit takes at x when its external calls return draw
StepOfFit(x, draw) ==
    CASE x.pc = "constructed" -> BeginRunOn(x)
      [] x.pc = "initialize" -> InitializeRestartOn(x, draw)
      [] x.pc = "maximize" -> MaximizationStepOn(x, draw)
      [] x.pc = "expect" -> ExpectationStepOn(x, draw)
      [] x.pc = "run_done" -> ReturnFromRunOn(x)
      [] x.pc = "ensemble" -> ClusteringEnsemblingOn(x, draw)

\* the constructor arguments tried for the two objects: the default
\* maximization and weightings with every recognised clustering
TwinConfigurations ==
    { c \in Configurations :
        /\ c.clustering \in RecognisedClusterings
        /\ c.maximization = DefaultOptions.maximization
        /\ c.negative_weighting = DefaultOptions.negative_weighting
        /\ c.positive_weighting = DefaultOptions.positive_weighting }

InitTwin ==
    /\ pc = "twin"
    /\ error = "none"
    /\ \E o \in TwinConfigurations :
        /\ clustering_method_name = o.clustering
        /\ maximization = o.maximization
        /\ negative_weighting = o.negative_weighting
        /\ positive_weighting = o.positive_weighting
        /\ n_consensus = o.n_consensus
        /\ label_to_cluster = o.label_to_cluster
    /\ coefficients = [k \in SeparatorKeys |-> NoArtifact]
    /\ intercepts = [k \in SeparatorKeys |-> NoArtifact]
    /\ orthonormal_basis = [c \in SlotKeys |-> NoArtifact]
    /\ clustering_method = [c \in SlotKeys |-> NoArtifact]
    /\ clustering_assignments = None
    /\ cluster_labels_ = None
    /\ barycenters = None
    /\ consensus = 0
    /\ iteration = 0
    /\ S = NoS
    /\ cluster_index = NoIndex
    /\ best_cluster_consistency = <<1, 1>>
    /\ ran = {}
    /\ calls = [restarts |-> 0, refinements |-> 0, fusions |-> 0]
    /\ em = [e \in Executions |-> FreshObject(e)]
    /\ ret = NoReturn
    /\ NoGram
    /\ NoProba
    /\ NoFit
    /\ NoHydra

\* both executions take their next step; with the same seed and the same
\* data, external calls made in the same state return the same in both
TwinStep ==
    /\ \E next \in
            { (1 :> StepOfFit(em[1], d[1])) @@ (2 :> StepOfFit(em[2], d[2])) :
                d \in IF em[1] = em[2]
                      THEN { <<d1, d1>> : d1 \in Draws(em[1]) }
                      ELSE Draws(em[1]) \X Draws(em[2]) } :
            em' = next
    /\ UNCHANGED <<pc, error, config, fitted, locals, ran, calls, ret>>
    /\ UNCHANGED <<gram, proba, hydra, relabel>>

\* the step the first execution is at
TwinAt(position) == em[1].pc = position /\ TwinStep

NextTwin ==
    \/ TwinAt("constructed")
    \/ TwinAt("initialize")
    \/ TwinAt("maximize")
    \/ TwinAt("expect")
    \/ TwinAt("run_done")
    \/ TwinAt("ensemble")

TwinSpec == InitTwin /\ [][NextTwin]_vars

----------------------------------------------------------------------------
(* UCSL_C.graam_schmidt *)

(* graam_schmidt as a function of its argument.  A vector is a record        *)
(* [n |-> integer components, d |-> common denominator] in lowest terms, a   *)
(* scalar a record [n |-> numerator, d |-> denominator]; d = 0 is NaN.  The  *)
(* directions are drawn from vectors whose residuals have rational norms, so *)
(* that every norm the method computes is exact.                             *)

\* largest number of rows of directions_basis
NDirections == 3

AbsInt(a) == IF a < 0 THEN 0 - a ELSE a
LCM(a, b) == (a \div GCD(a, b)) * b

RECURSIVE SeqGCD(_)
SeqGCD(q) == IF q = << >> THEN 0 ELSE GCD(AbsInt(Head(q)), SeqGCD(Tail(q)))

RECURSIVE SeqSum(_)
SeqSum(q) == IF q = << >> THEN 0 ELSE Head(q) + SeqSum(Tail(q))

Scalar(n, d) ==
    IF d = 0 THEN [n |-> 0, d |-> 0]
    ELSE LET g == GCD(AbsInt(n), d) IN [n |-> n \div g, d |-> d \div g]
Vector(n, d) ==
    LET g == GCD(SeqGCD(n), d) IN [n |-> [i \in DOMAIN n |-> n[i] \div g], d |-> d \div g]

ScalarNaN == Scalar(0, 0)
ScalarAdd(a, b) ==
    IF a.d = 0 \/ b.d = 0 THEN ScalarNaN
    ELSE LET l == LCM(a.d, b.d) IN Scalar(a.n * (l \div a.d) + b.n * (l \div b.d), l)
\* a > b; a comparison with NaN is False
ScalarGreater(a, b) ==
    /\ a.d # 0
    /\ b.d # 0
    /\ LET l == LCM(a.d, b.d) IN a.n * (l \div a.d) > b.n * (l \div b.d)

RECURSIVE ScalarSum(_)
ScalarSum(q) == IF q = << >> THEN Scalar(0, 1) ELSE ScalarAdd(Head(q), ScalarSum(Tail(q)))

\* np.dot(u, v)
Dot(u, v) == Scalar(SeqSum([i \in DOMAIN u.n |-> u.n[i] * v.n[i]]), u.d * v.d)
\* a * v
Times(a, v) == Vector([i \in DOMAIN v.n |-> a.n * v.n[i]], a.d * v.d)
\* u - v
Minus(u, v) ==
    LET l == LCM(u.d, v.d)
    IN  Vector([i \in DOMAIN u.n |-> u.n[i] * (l \div u.d) - v.n[i] * (l \div v.d)], l)

\* the root of a square number, by bisection on lo .. hi
RECURSIVE Root(_, _, _)
Root(x, lo, hi) ==
    IF lo >= hi THEN lo
    ELSE LET mid == (lo + hi + 1) \div 2
         IN  IF mid * mid <= x THEN Root(x, mid, hi) ELSE Root(x, lo, mid - 1)
\* np.linalg.norm(v)
Norm(v) ==
    LET squares == SeqSum([i \in DOMAIN v.n |-> v.n[i] * v.n[i]])
    IN  Scalar(Root(squares, 0, IF squares < 46340 THEN squares ELSE 46340), v.d)
\* every norm taken is that of a vector whose squared length is a square
HasRationalNorm(v) ==
    LET squares == SeqSum([i \in DOMAIN v.n |-> v.n[i] * v.n[i]])
        root == Root(squares, 0, IF squares < 46340 THEN squares ELSE 46340)
    IN  root * root = squares

\* w / np.linalg.norm(w)
Normalized(w) == LET len == Norm(w) IN Times(Scalar(len.d, len.n), w)

\* the rows graam_schmidt is called on
DirectionValues ==
    { Vector(<<1, 0, 0>>, 1), Vector(<<-1, 0, 0>>, 1), Vector(<<0, 1, 0>>, 1),
      Vector(<<0, 0, 1>>, 1), Vector(<<3, 4, 0>>, 5), Vector(<<0, 0, 1>>, 128) }
DirectionArrays ==
    UNION { [1 .. k -> DirectionValues] : k \in 1 .. NDirections }
\* the values of noise_tolerance_threshold tried
ThresholdValues == {1, 10}

\* line 446: the residual of direction_i once its component along direction_j
\* is taken out
Distinctiveness(direction_i, direction_j) ==
    Norm(Minus(direction_i, Times(Dot(direction_i, direction_j), direction_j)))
\* lines 443-447: np.mean(scores_i); the mean of an empty list is NaN
ScoreOf(rows, i) ==
    LET others == SelectSeq([j \in DOMAIN rows |-> j], LAMBDA j : j # i)
        scores_i == [k \in DOMAIN others |-> Distinctiveness(rows[i], rows[others[k]])]
        total == ScalarSum(scores_i)
    IN  IF scores_i = << >> THEN ScalarNaN
        ELSE Scalar(total.n, total.d * Len(scores_i))

\* argsort()[::-1]: an ordering of the rows by descending score; rows of
\* equal score come in either order
DescendingOrders(sc) ==
    { o \in [DOMAIN sc -> DOMAIN sc] :
        /\ \A i, j \in DOMAIN sc : i # j => o[i] # o[j]
        /\ \A i, j \in DOMAIN sc : i < j => ~ScalarGreater(sc[o[j]], sc[o[i]]) }

\* line 453: v - np.sum(np.dot(v, b) * b for b in basis)
RECURSIVE Residual(_, _)
Residual(v, accepted) ==
    IF accepted = << >> THEN v
    ELSE Minus(Residual(v, Tail(accepted)), Times(Dot(v, Head(accepted)), Head(accepted)))

\* the floor of line 457
FixedFloorPassed(w, accepted, threshold) == ScalarGreater(Norm(w), Scalar(1, 100))
\* lines 454-457: the test a residual passes to enter the basis
Accepts(w, accepted, threshold) ==
    IF Len(accepted) >= 2
    THEN LET len == Norm(w) IN ScalarGreater(Scalar(len.n * threshold, len.d), Scalar(1, 1))
    ELSE ScalarGreater(Norm(w), Scalar(1, 100))

InitGS ==
    /\ pc = "graam_schmidt"
    /\ error = "none"
    /\ clustering_method_name = DefaultOptions.clustering
    /\ maximization = DefaultOptions.maximization
    /\ negative_weighting = DefaultOptions.negative_weighting
    /\ positive_weighting = DefaultOptions.positive_weighting
    /\ n_consensus = DefaultOptions.n_consensus
    /\ label_to_cluster = DefaultOptions.label_to_cluster
    /\ coefficients = [k \in SeparatorKeys |-> NoArtifact]
    /\ intercepts = [k \in SeparatorKeys |-> NoArtifact]
    /\ orthonormal_basis = [c \in SlotKeys |-> NoArtifact]
    /\ clustering_method = [c \in SlotKeys |-> NoArtifact]
    /\ clustering_assignments = None
    /\ cluster_labels_ = None
    /\ barycenters = None
    /\ consensus = 0
    /\ iteration = 0
    /\ S = NoS
    /\ cluster_index = NoIndex
    /\ best_cluster_consistency = <<1, 1>>
    /\ ran = {}
    /\ calls = [restarts |-> 0, refinements |-> 0, fusions |-> 0]
    /\ em = NoEM
    /\ ret = NoReturn
    /\ noise_tolerance_threshold \in ThresholdValues
    /\ directions_basis \in DirectionArrays
    /\ scores = << >>
    /\ argsort = << >>
    /\ directions = << >>
    /\ basis = << >>
    /\ considered = << >>
    /\ NoProba
    /\ NoFit
    /\ NoHydra

\* lines 441-448: the scores and the rows in descending order of score
SortDirections ==
    /\ pc = "graam_schmidt"
    /\ scores' = [i \in DOMAIN directions_basis |-> ScoreOf(directions_basis, i)]
    /\ argsort' \in DescendingOrders(scores')
    /\ directions' = [k \in DOMAIN directions_basis |-> directions_basis[argsort'[k]]]
    /\ pc' = "orthonormalize"
    /\ UNCHANGED <<error, config, fitted, locals, ran, calls, em, ret>>
    /\ UNCHANGED <<noise_tolerance_threshold, directions_basis, basis, considered>>
    /\ UNCHANGED <<proba, hydra, relabel>>

\* lines 452-458: one pass of the loop over directions
OrthonormalizeNext ==
    /\ pc = "orthonormalize"
    /\ Len(considered) < Len(directions)
    /\ LET position == Len(considered) + 1
           v == directions[position]
           w == Residual(v, basis)
           accepted == Accepts(w, basis, noise_tolerance_threshold)
       IN  /\ basis' = IF accepted THEN Append(basis, Normalized(w)) ELSE basis
           /\ considered' = Append(considered,
                                   [row |-> argsort[position], w |-> w,
                                    held |-> Len(basis), accepted |-> accepted])
    /\ UNCHANGED <<pc, error, config, fitted, locals, ran, calls, em, ret>>
    /\ UNCHANGED <<noise_tolerance_threshold, directions_basis, scores, argsort, directions>>
    /\ UNCHANGED <<proba, hydra, relabel>>

\* line 459: return np.array(basis)
ReturnBasis ==
    /\ pc = "orthonormalize"
    /\ Len(considered) = Len(directions)
    /\ pc' = "returned"
    /\ ret' = Returned("graam_schmidt", "return", None, basis, None)
    /\ UNCHANGED <<error, config, fitted, locals, ran, calls, em>>
    /\ UNCHANGED <<gram, proba, hydra, relabel>>

NextGS ==
    \/ SortDirections
    \/ OrthonormalizeNext
    \/ ReturnBasis

GSSpec == InitGS /\ [][NextGS]_vars

----------------------------------------------------------------------------
(* UCSL_C.predict_classif_proba *)

(* predict_classif_proba as a function of what compute_distances_to_hyperplanes *)
(* and predict_clusters hand back for a batch.  A float is a Scalar; a quotient *)
(* by 0 is [n |-> 1, d |-> 0] for inf, [n |-> -1, d |-> 0] for -inf and NaN for *)
(* 0 / 0, as numpy computes it.                                                 *)

\* number of query points of the batch
NBatch == 2
Batch == 1 .. NBatch
\* the values of X @ coefficient[0] + intercept[0] tried
MarginValues == -2 .. 1

Sign(a) == IF a > 0 THEN 1 ELSE IF a < 0 THEN -1 ELSE 0
\* a / b on floats
Quotient(a, b) ==
    IF a.d = 0 \/ b.d = 0 THEN ScalarNaN
    ELSE IF b.n = 0 THEN [n |-> Sign(a.n), d |-> 0]
    ELSE Scalar(a.n * b.d * Sign(b.n), a.d * AbsInt(b.n))
IsNaNScalar(a) == a.d = 0 /\ a.n = 0
\* a < b on floats, inf and -inf included; False when either is NaN
FloatLess(a, b) ==
    /\ ~IsNaNScalar(a)
    /\ ~IsNaNScalar(b)
    /\ IF a.d = 0 THEN a.n < 0 /\ ~(b.d = 0 /\ b.n < 0)
       ELSE IF b.d = 0 THEN b.n > 0
       ELSE a.n * b.d < b.n * a.d
\* a <= b on floats
FloatAtMost(a, b) == ~IsNaNScalar(a) /\ ~IsNaNScalar(b) /\ ~FloatLess(b, a)

\* line 227: sum([cluster_predictions[:, cluster] * distances_to_hyperplanes[:, cluster]
\* for cluster in range(self.n_clusters)]) for one query point
WeightedMargin(memberships, distances) ==
    Scalar(SumOver([c \in Clusters |-> memberships.n[c] * distances[c]], Clusters),
           memberships.d)
\* np.max of a column without NaN
ColumnMax(column) ==
    CHOOSE m \in { column[i] : i \in DOMAIN column } :
        \A i \in DOMAIN column : FloatAtMost(column[i], m)
\* sigmoid(x), kept as the application itself
Sigmoid(x) == [sigmoid |-> x]
\* 1 - sigmoid(x)
OneMinus(p) == [one_minus |-> p]

InitProba ==
    /\ pc = "predict_classif_proba"
    /\ error = "none"
    /\ clustering_method_name = DefaultOptions.clustering
    /\ maximization = DefaultOptions.maximization
    /\ negative_weighting = DefaultOptions.negative_weighting
    /\ positive_weighting = DefaultOptions.positive_weighting
    /\ n_consensus = DefaultOptions.n_consensus
    /\ label_to_cluster \in ClassLabels
    /\ coefficients = [k \in SeparatorKeys |-> NoArtifact]
    /\ intercepts = [k \in SeparatorKeys |-> NoArtifact]
    /\ orthonormal_basis = [c \in SlotKeys |-> NoArtifact]
    /\ clustering_method = [c \in SlotKeys |-> NoArtifact]
    /\ clustering_assignments = None
    /\ cluster_labels_ = None
    /\ barycenters = None
    /\ consensus = 0
    /\ iteration = 0
    /\ S = NoS
    /\ cluster_index = NoIndex
    /\ best_cluster_consistency = <<1, 1>>
    /\ ran = {}
    /\ calls = [restarts |-> 0, refinements |-> 0, fusions |-> 0]
    /\ em = NoEM
    /\ ret = NoReturn
    /\ NoGram
    /\ NoProba
    /\ NoFit
    /\ NoHydra

\* lines 221-225: y_pred = np.zeros((len(X), 2)) and what the two calls hand back
CollectPredictions ==
    /\ pc = "predict_classif_proba"
    /\ y_pred' = [i \in Batch |-> [l \in ClassLabels |-> Scalar(0, 1)]]
    /\ distances_to_hyperplanes' \in [Batch -> [Clusters -> MarginValues]]
    /\ cluster_predictions' \in [Batch -> ProbaRows]
    /\ pc' = "weight"
    /\ UNCHANGED <<error, config, fitted, locals, ran, calls, em, ret>>
    /\ UNCHANGED <<gram, hydra, relabel>>

\* line 227: the membership-weighted sum of the margins
WeightMargins ==
    /\ pc = "weight"
    /\ y_pred' = [i \in Batch |->
                    [y_pred[i] EXCEPT ![label_to_cluster] =
                        WeightedMargin(cluster_predictions[i], distances_to_hyperplanes[i])]]
    /\ pc' = "scale"
    /\ UNCHANGED <<error, config, fitted, locals, ran, calls, em, ret>>
    /\ UNCHANGED <<gram, hydra, distances_to_hyperplanes, cluster_predictions, relabel>>

\* line 229: the division by the batch maximum, then the sigmoid
ScaleAndSquash ==
    /\ pc = "scale"
    /\ LET column == [i \in Batch |-> y_pred[i][label_to_cluster]]
       IN  y_pred' = [i \in Batch |->
                        [y_pred[i] EXCEPT ![label_to_cluster] =
                            Sigmoid(Quotient(column[i], ColumnMax(column)))]]
    /\ pc' = "complement"
    /\ UNCHANGED <<error, config, fitted, locals, ran, calls, em, ret>>
    /\ UNCHANGED <<gram, hydra, distances_to_hyperplanes, cluster_predictions, relabel>>

\* lines 230-232: the other column, and the return
ComplementAndReturn ==
    /\ pc = "complement"
    /\ y_pred' = [i \in Batch |->
                    [y_pred[i] EXCEPT ![1 - label_to_cluster] =
                        OneMinus(y_pred[i][label_to_cluster])]]
    /\ pc' = "returned"
    /\ ret' = Returned("predict_classif_proba", "return", None, y_pred', None)
    /\ UNCHANGED <<error, config, fitted, locals, ran, calls, em>>
    /\ UNCHANGED <<gram, hydra, distances_to_hyperplanes, cluster_predictions, relabel>>

NextProba ==
    \/ CollectPredictions
    \/ WeightMargins
    \/ ScaleAndSquash
    \/ ComplementAndReturn

ProbaSpec == InitProba /\ [][NextProba]_vars

----------------------------------------------------------------------------
(* HYDRA.run for a label with one cluster (src/main.py) *)

(* run(X, y, idx_outside_polytope) of a HYDRA object whose                     *)
(* n_clusters_per_label[idx_outside_polytope] is 1.  The variables S,          *)
(* cluster_index, consensus (consensus_i), iteration (iter) are the locals of  *)
(* run; n_consensus, barycenters, coefficients and intercepts the attributes   *)
(* of the object; hydra holds the attributes and locals UCSL_C has no name     *)
(* for.  S is a function of the sample and of the cluster.                     *)

Features == {0, 1}
\* the feature vectors tried
FeatureVectors == { (0 :> 0) @@ (1 :> 0), (0 :> 2) @@ (1 :> 0), (0 :> 0) @@ (1 :> 2) }
\* tolerance=0.0001 is the default of HYDRA.__init__; 0 is tried too
Tolerances == { Scalar(1, 10000), Scalar(0, 1) }
\* n_consensus=5 is the default of HYDRA.__init__
HydraConsensusValues == {1, 5}

\* HYDRA.__init__, lines 12-43, then the arguments of run
HydraObjects ==
    { [n_iterations |-> it, tolerance |-> tol,
       n_clusters_per_label |-> (label :> 1) @@ ((1 - label) :> 2),
       X |-> X, y |-> y, idx_outside_polytope |-> label,
       n_clusters |-> None, n_consensus |-> None, y_polytope |-> None,
       index_positives |-> None, index_negatives |-> None,
       S_hold |-> None, loss |-> None, launches |-> 0,
       consensus_assignment |-> None, updates |-> 0, fitted_on |-> None] :
        it \in 0 .. n_iterations, tol \in Tolerances, label \in ClassLabels,
        X \in [Samples -> FeatureVectors], y \in [Samples -> ClassLabels] }

\* one array X for the runs with two clusters
TwoClusterX == [i \in Samples |-> IF i % 2 = 0 THEN (0 :> 2) @@ (1 :> 0) ELSE (0 :> 0) @@ (1 :> 2)]

\* HYDRA.__init__, lines 12-43, then the arguments of run for a label with
\* n_clusters clusters
HydraClusterObjects ==
    { [n_iterations |-> it, tolerance |-> tol,
       n_clusters_per_label |-> (label :> n_clusters) @@ ((1 - label) :> 1),
       X |-> TwoClusterX, y |-> y, idx_outside_polytope |-> label,
       n_clusters |-> None, n_consensus |-> None, y_polytope |-> None,
       index_positives |-> None, index_negatives |-> None,
       S_hold |-> None, loss |-> None, launches |-> 0,
       consensus_assignment |-> None, updates |-> 0, fitted_on |-> None] :
        it \in 0 .. n_iterations, tol \in Tolerances, label \in ClassLabels,
        y \in [Samples -> ClassLabels] }

\* the object run is called on, for a label with n_clusters clusters
InitHydraClusters ==
    /\ pc = "run"
    /\ error = "none"
    /\ clustering_method_name = DefaultOptions.clustering
    /\ maximization = DefaultOptions.maximization
    /\ negative_weighting = DefaultOptions.negative_weighting
    /\ positive_weighting = DefaultOptions.positive_weighting
    /\ n_consensus \in 1 .. MaxConsensus
    /\ label_to_cluster = DefaultOptions.label_to_cluster
    /\ hydra \in HydraClusterObjects
    /\ coefficients = [l \in ClassLabels |-> [c \in 0 .. (hydra.n_clusters_per_label[l] - 1) |-> None]]
    /\ intercepts = [l \in ClassLabels |-> [c \in 0 .. (hydra.n_clusters_per_label[l] - 1) |-> None]]
    /\ barycenters = [l \in ClassLabels |-> None]
    /\ orthonormal_basis = [c \in SlotKeys |-> NoArtifact]
    /\ clustering_method = [c \in SlotKeys |-> NoArtifact]
    /\ clustering_assignments = None
    /\ cluster_labels_ = None
    /\ consensus = 0
    /\ iteration = 0
    /\ S = None
    /\ cluster_index = None
    /\ best_cluster_consistency = <<1, 1>>
    /\ ran = {}
    /\ calls = [restarts |-> 0, refinements |-> 0, fusions |-> 0]
    /\ em = NoEM
    /\ ret = NoReturn
    /\ NoGram
    /\ NoProba
    /\ NoFit

InitHydra ==
    /\ pc = "run"
    /\ error = "none"
    /\ clustering_method_name = DefaultOptions.clustering
    /\ maximization = DefaultOptions.maximization
    /\ negative_weighting = DefaultOptions.negative_weighting
    /\ positive_weighting = DefaultOptions.positive_weighting
    /\ n_consensus \in HydraConsensusValues
    /\ label_to_cluster = DefaultOptions.label_to_cluster
    /\ hydra \in HydraObjects
    /\ coefficients = [l \in ClassLabels |-> [c \in 0 .. (hydra.n_clusters_per_label[l] - 1) |-> None]]
    /\ intercepts = [l \in ClassLabels |-> [c \in 0 .. (hydra.n_clusters_per_label[l] - 1) |-> None]]
    /\ barycenters = [l \in ClassLabels |-> None]
    /\ orthonormal_basis = [c \in SlotKeys |-> NoArtifact]
    /\ clustering_method = [c \in SlotKeys |-> NoArtifact]
    /\ clustering_assignments = None
    /\ cluster_labels_ = None
    /\ consensus = 0
    /\ iteration = 0
    /\ S = None
    /\ cluster_index = None
    /\ best_cluster_consistency = <<1, 1>>
    /\ ran = {}
    /\ calls = [restarts |-> 0, refinements |-> 0, fusions |-> 0]
    /\ em = NoEM
    /\ ret = NoReturn
    /\ NoGram
    /\ NoProba
    /\ NoFit

\* lines 152-163: the locals of run
HydraBeginRun ==
    /\ pc = "run"
    /\ LET label == hydra.idx_outside_polytope
           K == hydra.n_clusters_per_label[label]
           local_consensus == IF K > 1 THEN n_consensus ELSE 1
           y_polytope == [i \in Samples |-> IF hydra.y[i] # label THEN -1 ELSE 1]
       IN  hydra' = [hydra EXCEPT
                        !.n_clusters = K,
                        !.n_consensus = local_consensus,
                        !.y_polytope = y_polytope,
                        !.index_positives = { i \in Samples : y_polytope[i] = 1 },
                        !.index_negatives = { i \in Samples : y_polytope[i] = -1 },
                        !.consensus_assignment =
                            [i \in Samples |-> [c \in 0 .. (local_consensus - 1) |-> 0]]]
    /\ consensus' = 0
    /\ pc' = "init_S"
    /\ UNCHANGED <<error, config, fitted, iteration, S, cluster_index,
                   best_cluster_consistency, ran, calls, em, ret>>
    /\ UNCHANGED <<gram, proba, relabel>>

\* np.mean(X, 0)[None, 1]: the mean of feature 1 over all the samples
MeanOfFeatureOne(X) ==
    << Scalar(SumOver([i \in Samples |-> X[i][1]], Samples), Cardinality(Samples)) >>

\* np.argmax(S, axis=1) of one row: the first index of the maximum
FirstArgMax(row) ==
    CHOOSE k \in DOMAIN row :
        /\ \A j \in DOMAIN row : ~ScalarGreater(row[j], row[k])
        /\ \A j \in DOMAIN row : j < k => ScalarGreater(row[k], row[j])

RECURSIVE ScalarSumOver(_, _)
\* np.sum, np.mean: the sum of f[x] for x in the finite set D
ScalarSumOver(f, D) ==
    IF D = {} THEN Scalar(0, 1)
    ELSE LET x == CHOOSE y \in D : TRUE IN ScalarAdd(f[x], ScalarSumOver(f, D \ {x}))

\* update_S, lines 225-229 (one cluster): S[index] = 1, cluster_index[index] = 0
update_S(S0, index, cluster_index0) ==
    [S |-> [i \in Samples |-> IF i \in index
                              THEN [c \in DOMAIN S0[i] |-> Scalar(1, 1)] ELSE S0[i]],
     cluster_index |-> [i \in Samples |-> IF i \in index THEN 0 ELSE cluster_index0[i]]]

\* the rows update_S left, without lines 182-184
SoftS(S0, positives, negatives, cluster_index0, K) == S0

\* lines 182-184: the weights the separators are fitted on
HardenS(S0, positives, negatives, cluster_index0, K) ==
    [i \in Samples |->
        [c \in DOMAIN S0[i] |->
            IF i \in negatives THEN Scalar(1, K)
            ELSE IF i \in positives
            THEN IF c = cluster_index0[i] THEN Scalar(1, 1) ELSE Scalar(0, 1)
            ELSE S0[i][c]]]

\* lines 189-192: np.mean(X[index_positives] * S[index_positives, cluster_i][:, None], 0)
\* for every cluster; the mean over no sample is NaN
LabelBarycenters(X, S0, positives) ==
    [c \in DOMAIN S0[CHOOSE i \in Samples : TRUE] |->
        [f \in Features |->
            IF positives = {} THEN ScalarNaN
            ELSE LET total == ScalarSumOver([i \in positives |->
                                                Scalar(X[i][f] * S0[i][c].n, S0[i][c].d)],
                                            positives)
                 IN  Scalar(total.n, total.d * Cardinality(positives))]]

\* the rows proportional_assign and one_hot_encode give a positive sample
\* (both in the utils module, which src/ does not hold): a distribution over
\* the clusters
MembershipRows ==
    { (0 :> Scalar(1, 1)) @@ (1 :> Scalar(0, 1)),
      (0 :> Scalar(0, 1)) @@ (1 :> Scalar(1, 1)),
      (0 :> Scalar(1, 2)) @@ (1 :> Scalar(1, 2)) }

\* lines 166-167 and init_S, lines 291-296 (n_clusters == 1), lines 298-321
\* and 374-383 (initialization_type "DPP", the default): np.random.randint(0)
\* of lines 304-305 raises ValueError
HydraInitS ==
    /\ pc = "init_S"
    /\ consensus < hydra.n_consensus
    /\ LET ones == [i \in Samples |-> [c \in 0 .. (hydra.n_clusters - 1) |->
                                            Scalar(1, hydra.n_clusters)]]
       IN  IF hydra.n_clusters = 1
           THEN /\ S' = ones
                /\ cluster_index' = [i \in Samples |-> FirstArgMax(ones[i])]
                /\ barycenters' = [barycenters EXCEPT ![hydra.idx_outside_polytope] =
                                       MeanOfFeatureOne(hydra.X)]
                /\ hydra' = [hydra EXCEPT !.updates = 0]
                /\ pc' = "first_fit"
                /\ error' = error
           ELSE IF hydra.index_positives = {} \/ hydra.index_negatives = {}
           THEN /\ pc' = "failed"
                /\ error' = "ValueError"
                /\ UNCHANGED <<S, cluster_index, barycenters, hydra>>
           ELSE \E weight_positive_samples \in [hydra.index_positives -> MembershipRows] :
                LET S0 == [i \in Samples |-> IF i \in hydra.index_positives
                                              THEN weight_positive_samples[i]
                                              ELSE ones[i]]
                IN  /\ S' = S0
                    /\ cluster_index' = [i \in Samples |-> FirstArgMax(S0[i])]
                    /\ barycenters' = [barycenters EXCEPT ![hydra.idx_outside_polytope] =
                                           LabelBarycenters(hydra.X, S0,
                                                            hydra.index_positives)]
                    /\ hydra' = [hydra EXCEPT !.updates = 0]
                    /\ pc' = "first_fit"
                    /\ error' = error
    /\ UNCHANGED <<config, coefficients, intercepts, orthonormal_basis,
                   clustering_method, clustering_assignments, cluster_labels_,
                   consensus, iteration, best_cluster_consistency, ran, calls, em, ret>>
    /\ UNCHANGED <<gram, proba, relabel>>

\* launch_svc, lines 385-393: SVC.fit raises ValueError when y holds one class
SeparatorsFitted(positives, negatives) == positives # {} /\ negatives # {}

\* lines 169-176: the separator of every cluster on the initial S
HydraFirstFit ==
    /\ pc = "first_fit"
    /\ LET label == hydra.idx_outside_polytope
       IN  IF SeparatorsFitted(hydra.index_positives, hydra.index_negatives)
           THEN /\ coefficients' = [coefficients EXCEPT ![label] =
                                       [c \in DOMAIN @ |-> Artifact(consensus, 0)]]
                /\ intercepts' = [intercepts EXCEPT ![label] =
                                       [c \in DOMAIN @ |-> Artifact(consensus, 0)]]
                /\ hydra' = [hydra EXCEPT !.launches = @ + hydra.n_clusters,
                                          !.fitted_on = [S |-> S, offset |-> Scalar(0, 1)]]
                /\ iteration' = 0
                /\ pc' = "iterate"
                /\ error' = error
           ELSE /\ pc' = "failed"
                /\ error' = "ValueError"
                /\ UNCHANGED <<coefficients, intercepts, hydra, iteration>>
    /\ UNCHANGED <<clustering_method_name, maximization, negative_weighting,
                   positive_weighting, n_consensus, label_to_cluster, orthonormal_basis,
                   clustering_method, clustering_assignments, cluster_labels_,
                   barycenters, consensus, S, cluster_index, best_cluster_consistency,
                   ran, calls, em, ret>>
    /\ UNCHANGED <<gram, proba, relabel>>

\* the square of np.linalg.norm(np.subtract(S, S_hold), ord='fro')
SquaredLoss(S0, S_hold) ==
    LET cells == { <<i, c>> : i \in Samples, c \in DOMAIN S0[CHOOSE i \in Samples : TRUE] }
        diff == [x \in cells |->
                    LET a == S0[x[1]][x[2]]
                        b == S_hold[x[1]][x[2]]
                        l == LCM(a.d, b.d)
                        d == a.n * (l \div a.d) - b.n * (l \div b.d)
                    IN  Scalar(d * d, l * l)]
    IN  ScalarSumOver(diff, cells)

\* line 196: loss < self.tolerance, both being 0 or more
BelowTolerance(loss_squared, tolerance) ==
    ScalarGreater(Scalar(tolerance.n * tolerance.n, tolerance.d * tolerance.d), loss_squared)

\* np.argmax of one row of Q: the first NaN when the row holds one
ArgMaxOfRow(row) ==
    IF \E k \in DOMAIN row : IsNaNScalar(row[k])
    THEN CHOOSE k \in DOMAIN row :
            IsNaNScalar(row[k]) /\ \A j \in DOMAIN row : j < k => ~IsNaNScalar(row[j])
    ELSE FirstArgMax(row)

\* the rows py_softmax gives (utils, which src/ does not hold): a
\* distribution over the clusters, or NaN when the exponentials overflow
SoftmaxRows == MembershipRows \cup { (0 :> ScalarNaN) @@ (1 :> ScalarNaN) }

\* update_S, lines 231-288 (more than one cluster): S[index, :] = Q,
\* cluster_index[index] = np.argmax(Q, axis=1)
update_S_with(S0, index, cluster_index0, Q) ==
    [S |-> [i \in Samples |-> IF i \in index THEN Q[i] ELSE S0[i]],
     cluster_index |-> [i \in Samples |-> IF i \in index THEN ArgMaxOfRow(Q[i])
                                           ELSE cluster_index0[i]]]

\* lines 178-197: one pass of the loop up to the test of the loss
HydraUpdateS ==
    /\ pc = "iterate"
    /\ iteration < hydra.n_iterations
    /\ \E Q \in [hydra.index_positives ->
                    IF hydra.n_clusters = 1 THEN {<< >>} ELSE SoftmaxRows] :
       LET label == hydra.idx_outside_polytope
           S_hold == S
           updated == IF hydra.n_clusters = 1
                      THEN update_S(S, hydra.index_positives, cluster_index)
                      ELSE update_S_with(S, hydra.index_positives, cluster_index, Q)
           hardened == HardenS(updated.S, hydra.index_positives, hydra.index_negatives,
                               updated.cluster_index, hydra.n_clusters)
           loss == SquaredLoss(hardened, S_hold)
       IN  /\ S' = hardened
           /\ cluster_index' = updated.cluster_index
           /\ barycenters' = [barycenters EXCEPT ![label] =
                                 LabelBarycenters(hydra.X, hardened, hydra.index_positives)]
           /\ hydra' = [hydra EXCEPT !.S_hold = S_hold, !.loss = loss,
                                     !.updates = @ + 1]
           /\ pc' = IF BelowTolerance(loss, hydra.tolerance) THEN "restart_done" ELSE "refit"
    /\ UNCHANGED <<error, config, coefficients, intercepts, orthonormal_basis,
                   clustering_method, clustering_assignments, cluster_labels_,
                   consensus, iteration, best_cluster_consistency, ran, calls, em, ret>>
    /\ UNCHANGED <<gram, proba, relabel>>

\* lines 199-211: the separators on the new S, then the next pass
HydraRefit ==
    /\ pc = "refit"
    /\ LET label == hydra.idx_outside_polytope
       IN  /\ coefficients' = [coefficients EXCEPT ![label] =
                                  [c \in DOMAIN @ |-> Artifact(consensus, iteration + 1)]]
           /\ intercepts' = [intercepts EXCEPT ![label] =
                                  [c \in DOMAIN @ |-> Artifact(consensus, iteration + 1)]]
    /\ hydra' = [hydra EXCEPT !.launches = @ + hydra.n_clusters,
                              !.fitted_on = [S |-> S, offset |-> Scalar(1, 100000)]]
    /\ iteration' = iteration + 1
    /\ pc' = "iterate"
    /\ UNCHANGED <<error, clustering_method_name, maximization, negative_weighting,
                   positive_weighting, n_consensus, label_to_cluster, orthonormal_basis,
                   clustering_method, clustering_assignments, cluster_labels_,
                   barycenters, consensus, S, cluster_index, best_cluster_consistency,
                   ran, calls, em, ret>>
    /\ UNCHANGED <<gram, proba, relabel>>

\* line 178: range(self.n_iterations) is exhausted
HydraLoopExhausted ==
    /\ pc = "iterate"
    /\ iteration >= hydra.n_iterations
    /\ pc' = "restart_done"
    /\ UNCHANGED <<error, config, fitted, locals, ran, calls, em, ret, hydra>>
    /\ UNCHANGED <<gram, proba, relabel>>

\* lines 214-215, then the next consensus_i of line 164
HydraRecordRestart ==
    /\ pc = "restart_done"
    /\ hydra' = [hydra EXCEPT !.consensus_assignment =
                    [i \in Samples |-> [@[i] EXCEPT ![consensus] = cluster_index[i] + 1]]]
    /\ calls' = [calls EXCEPT !.restarts = @ + 1]
    /\ consensus' = consensus + 1
    /\ pc' = IF consensus + 1 < hydra.n_consensus THEN "init_S" ELSE "ensemble"
    /\ UNCHANGED <<error, config, coefficients, intercepts, orthonormal_basis,
                   clustering_method, clustering_assignments, cluster_labels_,
                   barycenters, iteration, S, cluster_index, best_cluster_consistency,
                   ran, em, ret>>
    /\ UNCHANGED <<gram, proba, relabel>>

\* lines 217-218: apply_consensus only when the local n_consensus exceeds 1;
\* apply_consensus, lines 395-433: consensus_scores (consensus_clustering is in
\* utils, which src/ does not hold) is a cluster for every sample, S is rebuilt
\* from it, every separator is fitted on it and the barycenters follow
HydraReturn ==
    /\ pc = "ensemble"
    /\ IF hydra.n_consensus > 1
       THEN \E consensus_scores \in [Samples -> 0 .. (hydra.n_clusters - 1)] :
            LET label == hydra.idx_outside_polytope
                S0 == HardenS([i \in Samples |-> [c \in 0 .. (hydra.n_clusters - 1) |->
                                                      Scalar(1, hydra.n_clusters)]],
                              hydra.index_positives, {}, consensus_scores,
                              hydra.n_clusters)
            IN  /\ coefficients' = [coefficients EXCEPT ![label] =
                                       [c \in DOMAIN @ |-> Artifact(consensus, 0)]]
                /\ intercepts' = [intercepts EXCEPT ![label] =
                                       [c \in DOMAIN @ |-> Artifact(consensus, 0)]]
                /\ barycenters' = [barycenters EXCEPT ![label] =
                                       LabelBarycenters(hydra.X, S0, hydra.index_positives)]
                /\ hydra' = [hydra EXCEPT !.launches = @ + hydra.n_clusters]
                /\ calls' = [calls EXCEPT !.fusions = @ + 1]
       ELSE /\ calls' = calls
            /\ UNCHANGED <<coefficients, intercepts, barycenters, hydra>>
    /\ pc' = "returned"
    /\ ret' = Returned("run", "return", None, None, None)
    /\ UNCHANGED <<error, config, orthonormal_basis, clustering_method,
                   clustering_assignments, cluster_labels_, locals, ran, em>>
    /\ UNCHANGED <<gram, proba, relabel>>

NextHydra ==
    \/ HydraBeginRun
    \/ HydraInitS
    \/ HydraFirstFit
    \/ HydraUpdateS
    \/ HydraRefit
    \/ HydraLoopExhausted
    \/ HydraRecordRestart
    \/ HydraReturn

HydraSpec == InitHydra /\ [][NextHydra]_vars

\* run for a label with n_clusters clusters
HydraClustersSpec == InitHydraClusters /\ [][NextHydra]_vars

----------------------------------------------------------------------------
(* The label mapping of fit (UCSL_C.fit and HYDRA.fit) *)

(* fit(X_train, y_train) of an object whose training_label_mapping is a dict   *)
(* from the labels of the caller to the labels of training.  A dict is         *)
(* iterated in the order its items were inserted, which the caller chooses.    *)
(* run copies the y it is given (ucsl_classifier.py line 283, main.py line     *)
(* 155); its own steps are those of Spec and of HydraSpec.                     *)

MaxLabel == 2
\* the labels the caller's array may hold
OriginalLabels == 0 .. MaxLabel
\* the dicts tried: every map from some of the caller's labels to 0 and 1
LabelMappings == UNION { [D -> ClassLabels] : D \in (SUBSET OriginalLabels) \ {{}} }
\* training_label_mapping.items() in every order of insertion
ItemOrders(mapping) ==
    LET D == DOMAIN mapping
        orders == { q \in [1 .. Cardinality(D) -> D] : \A a, b \in DOMAIN q : q[a] = q[b] => a = b }
    IN  { [k \in DOMAIN q |-> <<q[k], mapping[q[k]]>>] : q \in orders }

\* the call of fit, on an object of either class
InitFit ==
    /\ pc \in {"ucsl_fit", "hydra_fit"}
    /\ error = "none"
    /\ clustering_method_name = DefaultOptions.clustering
    /\ maximization = DefaultOptions.maximization
    /\ negative_weighting = DefaultOptions.negative_weighting
    /\ positive_weighting = DefaultOptions.positive_weighting
    /\ n_consensus = DefaultOptions.n_consensus
    /\ label_to_cluster = DefaultOptions.label_to_cluster
    /\ coefficients = [c \in SeparatorKeys |-> NoArtifact]
    /\ intercepts = [c \in SeparatorKeys |-> NoArtifact]
    /\ orthonormal_basis = [c \in SlotKeys |-> NoArtifact]
    /\ clustering_method = [c \in SlotKeys |-> NoArtifact]
    /\ clustering_assignments = None
    /\ cluster_labels_ = None
    /\ barycenters = None
    /\ consensus = 0
    /\ iteration = 0
    /\ S = None
    /\ cluster_index = None
    /\ best_cluster_consistency = <<1, 1>>
    /\ ran = {}
    /\ calls = [restarts |-> 0, refinements |-> 0, fusions |-> 0]
    /\ em = NoEM
    /\ ret = NoReturn
    /\ NoGram
    /\ NoProba
    /\ NoHydra
    \* ucsl_classifier.py lines 100-103: never None; main.py line 27: None
    \* by default
    /\ training_label_mapping \in
            LabelMappings \cup (IF pc = "hydra_fit" THEN {None} ELSE {})
    /\ items \in IF training_label_mapping = None THEN {<< >>}
                 ELSE ItemOrders(training_label_mapping)
    /\ y_train \in [Samples -> OriginalLabels]
    /\ y_train_copy = << >>
    /\ passed = y_train
    /\ trained_on = << >>

\* target[compared == original_label] = new_label
AssignUnderMask(target, compared, original_label, new_label) ==
    [i \in DOMAIN target |-> IF compared[i] = original_label THEN new_label ELSE target[i]]

\* ucsl_classifier.py line 141
UcslFitCopy ==
    /\ pc = "ucsl_fit"
    /\ y_train_copy' = y_train
    /\ pc' = "ucsl_map"
    /\ UNCHANGED <<error, config, fitted, locals, ran, calls, em, ret>>
    /\ UNCHANGED <<gram, proba, hydra, training_label_mapping, items, y_train, passed,
                   trained_on>>

\* ucsl_classifier.py lines 142-143: one item of the dict
UcslFitMapItem ==
    /\ pc = "ucsl_map"
    /\ items # << >>
    /\ y_train_copy' = AssignUnderMask(y_train_copy, y_train, Head(items)[1], Head(items)[2])
    /\ items' = Tail(items)
    /\ UNCHANGED <<pc, error, config, fitted, locals, ran, calls, em, ret>>
    /\ UNCHANGED <<gram, proba, hydra, training_label_mapping, y_train, passed,
                   trained_on>>

\* ucsl_classifier.py lines 146-148: run on the copy, return self
UcslFitRun ==
    /\ pc = "ucsl_map"
    /\ items = << >>
    /\ trained_on' = y_train_copy
    /\ pc' = "ucsl_fit_done"
    /\ UNCHANGED <<error, config, fitted, locals, ran, calls, em, ret>>
    /\ UNCHANGED <<gram, proba, hydra, training_label_mapping, items, y_train,
                   y_train_copy, passed>>

\* main.py lines 46-48: one item of the dict, written into y_train itself
HydraFitMapItem ==
    /\ pc = "hydra_fit"
    /\ items # << >>
    /\ y_train' = AssignUnderMask(y_train, y_train, Head(items)[1], Head(items)[2])
    /\ items' = Tail(items)
    /\ UNCHANGED <<pc, error, config, fitted, locals, ran, calls, em, ret>>
    /\ UNCHANGED <<gram, proba, hydra, training_label_mapping, y_train_copy, passed,
                   trained_on>>

\* main.py lines 50-51: run on y_train for every label
HydraFitRun ==
    /\ pc = "hydra_fit"
    /\ items = << >>
    /\ trained_on' = y_train
    /\ pc' = "hydra_fit_done"
    /\ UNCHANGED <<error, config, fitted, locals, ran, calls, em, ret>>
    /\ UNCHANGED <<gram, proba, hydra, training_label_mapping, items, y_train,
                   y_train_copy, passed>>

NextFit ==
    \/ UcslFitCopy
    \/ UcslFitMapItem
    \/ UcslFitRun
    \/ HydraFitMapItem
    \/ HydraFitRun

FitSpec == InitFit /\ [][NextFit]_vars

----------------------------------------------------------------------------
(* Properties of graam_schmidt *)

\* the acceptance floor once held vectors are in the basis
AcceptanceFloor(held) ==
    IF held >= 2 THEN Scalar(1, noise_tolerance_threshold) ELSE Scalar(1, 100)
AcceptedBefore(k) == Cardinality({j \in 1 .. (k - 1) : considered[j].accepted})
UnitNorm(v) == Norm(v) = Scalar(1, 1)

NormsAreExact ==
    /\ \A k \in DOMAIN considered : HasRationalNorm(considered[k].w)
    /\ \A i, j \in DOMAIN directions_basis :
        i # j => HasRationalNorm(Minus(directions_basis[i],
                                       Times(Dot(directions_basis[i], directions_basis[j]),
                                             directions_basis[j])))

----------------------------------------------------------------------------
(* Properties of predict_classif_proba *)

\* the value line 229 passed to the sigmoid for query point i
ScaledValue(i) == y_pred[i][label_to_cluster].sigmoid
\* the weighted margin of query point i, from the locals
MarginOf(i) == WeightedMargin(cluster_predictions[i], distances_to_hyperplanes[i])

\* C16: once line 229 has run, the value passed to the sigmoid is at most 1
\* for every query point of the batch, and the query points are ordered by
\* that value as they are by their weighted margin.
C16_ScaledAtMostOneInMarginOrder ==
    pc \in {"complement", "returned"} =>
        /\ \A i \in Batch : FloatAtMost(ScaledValue(i), Scalar(1, 1))
        /\ \A i, j \in Batch :
            FloatLess(ScaledValue(i), ScaledValue(j)) <=> FloatLess(MarginOf(i), MarginOf(j))

\* the same when the batch maximum of the weighted margins is positive
ScaledAtMostOneWhenMaxPositive ==
    (/\ pc \in {"complement", "returned"}
     /\ \E i \in Batch : MarginOf(i).n > 0) =>
        /\ \A i \in Batch : FloatAtMost(ScaledValue(i), Scalar(1, 1))
        /\ \A i, j \in Batch :
            FloatLess(ScaledValue(i), ScaledValue(j)) <=> FloatLess(MarginOf(i), MarginOf(j))

----------------------------------------------------------------------------
(* Properties of HYDRA.run with one cluster *)

\* the mean feature vector of the positive samples
MeanOfPositives ==
    [f \in Features |->
        Scalar(SumOver([i \in hydra.index_positives |-> hydra.X[i][f]],
                       hydra.index_positives),
               Cardinality(hydra.index_positives))]
HydraRunning == pc \in {"first_fit", "iterate", "refit", "restart_done", "ensemble", "returned"}

\* the restart, consensus, separator and cluster_index parts of C14
OneRestartOneSeparator ==
    /\ calls.restarts <= 1
    /\ calls.fusions = 0
    /\ DOMAIN coefficients[hydra.idx_outside_polytope] = {0}
    /\ HydraRunning => \A i \in hydra.index_positives : cluster_index[i] = 0
    /\ pc = "returned" => calls.restarts = 1

\* C14: run for a label with one cluster makes exactly one restart and no
\* consensus step whatever n_consensus is, fits the separator of cluster 0
\* only, keeps cluster_index at 0 for every positive sample, and leaves as
\* the barycenter of the label the mean feature vector of the positive
\* samples when it returns.
C14_OneClusterRun ==
    /\ OneRestartOneSeparator
    /\ pc = "returned" =>
        barycenters[hydra.idx_outside_polytope] = (0 :> MeanOfPositives)

\* the same for the objects whose n_iterations is at least 1
OneClusterRunWithIterations ==
    hydra.n_iterations >= 1 => C14_OneClusterRun

----------------------------------------------------------------------------
(* The restarts of run and the columns of clustering_assignments *)

\* the columns of clustering_assignments the restarts have written
WrittenColumns == 0 .. (consensus - 1)
RunOfRestarts == pc \in {"initialize", "maximize", "expect", "run_done"} /\ consensus < n_consensus

\* C21: restart c of run initializes, applies the weighting policy, runs
\* run_EM and records, in this order; column c of clustering_assignments is
\* written once, by restart c, with the cluster_index run_EM returned, the
\* argmax over the positive rows of its last expectation step, whose entries
\* are cluster indexes; restart c writes no other column, and the consensus
\* fusion starts only when all n_consensus columns are written.
C21_RestartsRecordInOrder ==
    /\ [](RunOfRestarts =>
            /\ calls.restarts = (IF pc = "initialize" THEN consensus ELSE consensus + 1)
            /\ calls.fusions = 0
            /\ \A c \in (DOMAIN clustering_assignments) \ WrittenColumns :
                \A i \in index_positives : clustering_assignments[c][i] = 0)
    /\ [][(pc = "initialize" /\ pc' = "maximize") =>
            /\ \E init \in InitialS(clustering_method_name) :
                /\ S' = WeightAtInit(init, negative_weighting, positive_weighting)
                /\ cluster_index' = HardAssignment(init)
            /\ em'.m_steps = 0
            /\ clustering_assignments' = clustering_assignments]_vars
    /\ [][(pc = "expect" /\ consensus < n_consensus) =>
            /\ \E Q \in ExpectedQ(clustering_method_name) : cluster_index' = HardAssignment(Q)
            /\ pc' = "maximize" => cluster_index' = HardAssignment(S')
            /\ clustering_assignments' = clustering_assignments]_vars
    /\ [][(pc = "maximize" /\ consensus < n_consensus) =>
            clustering_assignments' = clustering_assignments]_vars
    /\ [][(pc = "run_done" /\ consensus < n_consensus) =>
            /\ em.e_steps >= 1
            /\ clustering_assignments'[consensus] = cluster_index
            /\ \A i \in index_positives : clustering_assignments'[consensus][i] \in Clusters
            /\ \A c \in (DOMAIN clustering_assignments) \ {consensus} :
                clustering_assignments'[c] = clustering_assignments[c]
            /\ consensus' = consensus + 1]_vars
    /\ [][clustering_assignments' # clustering_assignments =>
            pc \in {"constructed", "run_done"} /\ consensus < n_consensus]_vars
    /\ [](pc = "ensemble" => consensus = n_consensus /\ calls.restarts = n_consensus)
    /\ [](calls.fusions > 0 => consensus = n_consensus + 1 /\ calls.restarts = n_consensus)

\* the fusion is about to start on two columns that differ, neither being the
\* column of zeros run starts with
C21_AllColumnsWritten ==
    /\ pc = "ensemble"
    /\ n_consensus = MaxConsensus
    /\ clustering_assignments[0] # clustering_assignments[1]
    /\ \A c \in DOMAIN clustering_assignments :
        \E i \in index_positives : clustering_assignments[c][i] # 0

----------------------------------------------------------------------------
(* The separators between two maximization steps *)

ClusterSeparators == [k \in Clusters |-> <<coefficients[k], intercepts[k]>>]

\* C22: a maximization step of run_EM leaves in every cluster the separator
\* fitted in this iteration of this run, so that no cluster holds a separator
\* of an earlier iteration or restart; and no other step of fit (expectation,
\* weighting policy, checkpoint, record, fusion) changes the separator of a
\* cluster.
C22_SeparatorsAreFreshAndFramed ==
    /\ [](pc = "expect" =>
            \A k \in Clusters :
                ClusterSeparators[k] = <<Artifact(consensus, iteration),
                                         Artifact(consensus, iteration)>>)
    /\ [](\A k1, k2 \in Clusters : ClusterSeparators[k1] = ClusterSeparators[k2])
    /\ [][pc # "maximize" => ClusterSeparators' = ClusterSeparators]_vars
    /\ [][(pc = "maximize" /\ pc' = "expect") =>
            \A k \in Clusters : ClusterSeparators'[k] # ClusterSeparators[k]]_vars

\* the second iteration of the second restart has fitted its separators
C22_LaterIterationRefitsAll ==
    /\ pc = "expect"
    /\ consensus = 1
    /\ iteration = 1
    /\ \A k \in Clusters : coefficients[k] = Artifact(1, 1)

----------------------------------------------------------------------------
(* The per-restart slots of orthonormal_basis and clustering_method *)

RestartSlots == 0 .. (n_consensus - 1)
SlotOf(c) == <<orthonormal_basis[c], clustering_method[c]>>

\* C23: with n_consensus > 1, slot c of orthonormal_basis and of
\* clustering_method is written by the expectation steps of restart c only,
\* each leaving in it the basis and the model it made, so that after fit the
\* slot holds those of the last expectation step of restart c; the final
\* refinement writes the slot n_consensus + 1, which is no restart slot and is
\* not the best-so-far slot -1.
C23_RestartSlotsAreKept ==
    /\ [][n_consensus > 1 =>
            \A c \in RestartSlots :
                SlotOf(c)' # SlotOf(c) => pc = "expect" /\ consensus = c]_vars
    /\ [][(n_consensus > 1 /\ pc = "expect" /\ consensus \in RestartSlots) =>
            SlotOf(consensus)' = <<Artifact(consensus, iteration),
                                   Artifact(consensus, iteration)>>]_vars
    /\ [][(n_consensus > 1 /\ pc = "expect" /\ consensus \notin RestartSlots) =>
            /\ consensus = n_consensus + 1
            /\ SlotOf(n_consensus + 1)' = <<Artifact(consensus, iteration),
                                            Artifact(consensus, iteration)>>
            /\ \A c \in RestartSlots : SlotOf(c)' = SlotOf(c)]_vars
    /\ []((n_consensus > 1 /\ pc = "fitted") =>
            /\ \A c \in RestartSlots :
                /\ orthonormal_basis[c].run = c
                /\ clustering_method[c] = orthonormal_basis[c]
            /\ orthonormal_basis[n_consensus + 1].run = n_consensus + 1
            /\ (n_consensus + 1) \notin (RestartSlots \cup {-1}))

\* fit has ended after two restarts and the refinement; the first restart made
\* two expectation steps and its slot still holds the second one's basis
C23_SlotsAfterRefinement ==
    /\ pc = "fitted"
    /\ n_consensus = MaxConsensus
    /\ orthonormal_basis[0] = Artifact(0, 1)
    /\ orthonormal_basis[1].run = 1
    /\ orthonormal_basis[n_consensus + 1].run = n_consensus + 1
    /\ orthonormal_basis[-1] = orthonormal_basis[n_consensus + 1]

----------------------------------------------------------------------------
(* The artifacts prediction reads *)

\* an EM iteration has completed and no later one has begun
IterationCompleted ==
    \/ pc = "maximize" /\ em.e_steps >= 1
    \/ pc = "run_done"
    \/ pc \in {"initialize", "ensemble"} /\ calls.restarts >= 1
    \/ pc = "fitted"
\* what compute_distances_to_hyperplanes and predict_clusters read
PredictionReads ==
    { coefficients[k] : k \in Clusters } \cup { intercepts[k] : k \in Clusters }
        \cup { orthonormal_basis[-1], clustering_method[-1] }

\* C24: with a Gaussian mixture, after every completed EM iteration and after
\* fit, the separators of the clusters, orthonormal_basis[-1] and
\* clustering_method[-1] were all made by one iteration, the last one executed.
C24_PredictionReadsOneIteration ==
    (clustering_method_name \in GaussianMixtures /\ IterationCompleted) =>
        /\ Cardinality(PredictionReads) = 1
        /\ NoArtifact \notin PredictionReads
        /\ pc = "run_done" => PredictionReads = {Artifact(consensus, iteration)}
        /\ pc = "maximize" => PredictionReads = {Artifact(consensus, iteration - 1)}

\* fit has ended with a Gaussian mixture after a refinement of two iterations
C24_FittedOnSecondRefinementIteration ==
    /\ pc = "fitted"
    /\ clustering_method_name \in GaussianMixtures
    /\ n_consensus = MaxConsensus
    /\ PredictionReads = {Artifact(n_consensus + 1, 1)}

----------------------------------------------------------------------------
(* The checkpoint branch in a normal restart *)

\* run_EM runs for a restart of run, entered with best_cluster_consistency = 1
NormalRestart == consensus < n_consensus /\ pc \in {"maximize", "expect", "run_done"}

\* C25: in a restart of run (consensus in 0 .. n_consensus - 1) the
\* consistency of an iteration never exceeds the floor 1, the checkpoint
\* branch is never taken, and the best-so-far slot is written by the
\* assignments of expectation_step only.
C25_NoCheckpointInRestart ==
    /\ [](NormalRestart =>
            /\ em.checkpoints = 0
            /\ em.floor = <<1, 1>>
            /\ best_cluster_consistency = <<1, 1>>
            /\ ~FracGT(em.last_consistency, <<1, 1>>)
            /\ coefficients[-1] = NoArtifact
            /\ intercepts[-1] = NoArtifact
            /\ clustering_method_name = "k_means" => clustering_method[-1] = NoArtifact)
    /\ [][(NormalRestart /\ pc = "expect") =>
            /\ orthonormal_basis'[-1] = Artifact(consensus, iteration)
            /\ clustering_method_name \in GaussianMixtures =>
                clustering_method'[-1] = Artifact(consensus, iteration)]_vars
    /\ [][(NormalRestart /\ pc # "expect") =>
            /\ orthonormal_basis'[-1] = orthonormal_basis[-1]
            /\ clustering_method'[-1] = clustering_method[-1]]_vars

\* a restart has ended on an iteration whose consistency is 1, the floor
C25_ConsistencyTiesTheFloor ==
    /\ pc = "run_done"
    /\ consensus < n_consensus
    /\ em.last_consistency = <<1, 1>>
    /\ em.checkpoints = 0

----------------------------------------------------------------------------
(* Sequences of prediction calls *)

PredictionMethods ==
    {"predict", "predict_proba", "predict_classif_proba",
     "compute_distances_to_hyperplanes", "predict_clusters"}
\* the fitted state and the options are those of the object fit left
AsFitLeftIt(o) ==
    /\ clustering_method_name = o.clustering_method_name
    /\ n_consensus = o.n_consensus
    /\ label_to_cluster = o.label_to_cluster
    /\ coefficients = o.coefficients
    /\ intercepts = o.coefficients
    /\ orthonormal_basis = o.orthonormal_basis
    /\ clustering_method = o.clustering_method
    /\ clustering_assignments = o.clustering_assignments
    /\ cluster_labels_ = o.cluster_labels_
    /\ barycenters = o.barycenters

\* C28: predict, predict_proba, predict_classif_proba,
\* compute_distances_to_hyperplanes and predict_clusters leave the separators,
\* the bases, the clustering models, barycenters, cluster_labels_ and
\* clustering_assignments as fit left them, so that a call made after any
\* sequence of calls finds the state the first call found.
C28_PredictionKeepsFittedState ==
    /\ [][fitted' = fitted /\ config' = config]_vars
    /\ [](\E o \in FittedObjects : AsFitLeftIt(o))
    /\ [](ran \ {"initialize", "trainer", "maximization", "expectation"}
            \subseteq PredictionMethods)

\* predict has returned after each of the other four methods was called
C28_PredictAfterTheOthers ==
    /\ pc = "returned"
    /\ ret.op = "predict"
    /\ ret.kind = "return"
    /\ (PredictionMethods \ {"predict"}) \subseteq ran

----------------------------------------------------------------------------
(* The membership updates of a restart of HYDRA.run *)

\* the iteration of lines 178-197 stopped the restart at its break
StoppedByTolerance == pc = "restart_done" /\ iteration < hydra.n_iterations
\* every entry of the rows of the negative samples is 1/K, every row of a
\* positive sample is one-hot at its cluster index
HardenedS ==
    /\ \A i \in hydra.index_negatives : \A c \in DOMAIN S[i] :
            S[i][c] = Scalar(1, hydra.n_clusters)
    /\ \A i \in hydra.index_positives : \A c \in DOMAIN S[i] :
            S[i][c] = IF c = cluster_index[i] THEN Scalar(1, 1) ELSE Scalar(0, 1)
\* an entry of S changes by 1/2 or more when it changes, more than a tolerance
\* of 0.0001; nothing is below a tolerance of 0
ChangeBelowTolerance(before, after) ==
    /\ ScalarGreater(hydra.tolerance, Scalar(0, 1))
    /\ after = before

\* C26: a restart of HYDRA.run makes at most n_iterations membership updates;
\* after each update the rows of the negative samples are 1/K everywhere and
\* the rows of the positive samples one-hot at their cluster index; the restart
\* stops at the first iteration whose change of S is below tolerance, without
\* fitting the separators in that iteration, so that the separators it keeps
\* were fitted on the S the iteration before it left.
C26_UpdatesStopOnTolerance ==
    /\ [](hydra.updates <= hydra.n_iterations)
    /\ [](hydra.updates > 0 => HardenedS)
    /\ [][pc = "iterate" /\ iteration < hydra.n_iterations =>
            /\ hydra'.updates = hydra.updates + 1
            /\ pc' = IF ChangeBelowTolerance(S, S') THEN "restart_done" ELSE "refit"
            /\ coefficients' = coefficients
            /\ intercepts' = intercepts
            /\ hydra'.fitted_on = hydra.fitted_on]_vars
    /\ [][pc = "refit" => iteration' = iteration + 1 /\ hydra'.fitted_on.S = S
                           /\ pc' = "iterate"]_vars
    /\ [](StoppedByTolerance =>
            /\ hydra.updates = iteration + 1
            /\ hydra.fitted_on.S = hydra.S_hold
            /\ hydra.fitted_on.S = S
            /\ \A c \in DOMAIN coefficients[hydra.idx_outside_polytope] :
                  coefficients[hydra.idx_outside_polytope][c] = Artifact(consensus, iteration))

\* a restart with two clusters stopped in its second iteration, after an
\* iteration that moved a positive sample and fitted the separators
C26_StoppedAfterARefit ==
    /\ StoppedByTolerance
    /\ hydra.n_clusters = 2
    /\ iteration = 1
    /\ hydra.updates = 2
    /\ \E i \in hydra.index_positives : cluster_index[i] = 1
    /\ \E i \in hydra.index_positives : cluster_index[i] = 0

----------------------------------------------------------------------------
(* The label mapping of fit *)

\* the image of one label under training_label_mapping; a label the dict
\* does not hold is kept
MappedLabel(label) ==
    IF training_label_mapping # None /\ label \in DOMAIN training_label_mapping
    THEN training_label_mapping[label]
    ELSE label
\* fit left the caller's array alone and trained every sample with the image
\* of the label it came with
MappedSimultaneously ==
    /\ y_train = passed
    /\ trained_on = [i \in Samples |-> MappedLabel(passed[i])]

\* the same for UCSL_C.fit alone
UcslFitMapsSimultaneously == pc = "ucsl_fit_done" => MappedSimultaneously

\* HYDRA.fit without a mapping, or with one none of whose images is also a
\* label it maps elsewhere and differently
HydraFitWithoutChain ==
    (/\ pc = "hydra_fit_done"
     /\ \/ training_label_mapping = None
        \/ \A a \in DOMAIN training_label_mapping : training_label_mapping[a] = a)
        => MappedSimultaneously

\* C27: fit of UCSL_C and of HYDRA leaves the caller's y_train as it was and
\* trains every sample with the image under training_label_mapping of the
\* label the sample came with, so that a mapping swapping two labels swaps
\* them and merges nothing.
C27_FitMapsSimultaneously ==
    pc \in {"ucsl_fit_done", "hydra_fit_done"} => MappedSimultaneously

====
